---- MODULE Spec2Model ----
(***************************************************************************)
(* The A5 DuckDB extension: the scalar-function wrappers of the extension  *)
(* source and the cell-hierarchy core they call through rust.h.            *)
(*                                                                         *)
(* The wrappers (ValidateResolution, Throw*Error, A5*Fun) are translated   *)
(* from the C++ source; four wrappers of the earlier a5_extension.cpp      *)
(* (a5_area, a5_num_cells, a5_cell, a5_parent) are modelled beside them.   *)
(* The core routines (a5_cell_to_parent, a5_compact,                       *)
(* ...) live in the linked Rust library; they are modelled here from the   *)
(* design document: an identifier is the numeral                           *)
(*      << base_cell, d_1, ..., d_r >>                                      *)
(* of a base cell followed by one child-selector digit per resolution      *)
(* level, so the resolution r is read off the identifier alone, and the    *)
(* identifier 0 ("no cell") is the empty numeral.                          *)
(***************************************************************************)
EXTENDS Integers, Sequences, FiniteSets, TLC

VARIABLES
    pc,           \* "idle" | "running" | "done" | "failed": the executor's position
    fn,           \* the registered function being executed
    args,         \* DataChunk: the rows of the call, each a tuple of arguments
    validity,     \* validity mask of the first argument column, one flag per row
    cell_list_data, \* flat child data of a LIST argument column
    row,          \* index of the next row handed to the lambda
    result,       \* result Vector: one value (or list_entry_t) per finished row
    child,        \* ListVector child of result: the elements pushed so far
    offset,       \* uint64_t offset of the list-returning wrappers
    result_size,  \* result_size of A5CompactFun / A5UncompactFun
    raised,       \* message of the InvalidInputException thrown, or NoError
    calls,        \* core routines invoked during this call, in order
    obtained,     \* array buffers handed out by the core during this call
    released,     \* array buffers given back through a5_free_*_array
    events,       \* what was done with the core's buffers during this call, in order
    other         \* the locals of a second invocation, on another thread

vars == <<pc, fn, args, validity, cell_list_data, row, result, child, offset, result_size, raised,
          calls, obtained, released, events, other>>

-----------------------------------------------------------------------------
(* Program constants *)

MAX_RESOLUTION == 30

NumBaseCells == 12

(* Bounds of the model *)

MaxRows == 2          \* rows of a batch chunk
MaxDescent == 2       \* levels a children / uncompact row may descend
MaxSegments == 2      \* largest explicit segments argument
MaxAutoSegments == 2  \* largest segment count the core may choose by itself

-----------------------------------------------------------------------------
(* Small helpers *)

NoError == ""

Range(s) == {s[i] : i \in 1..Len(s)}

RECURSIVE ConcatAll(_)
ConcatAll(ss) == IF ss = <<>> THEN <<>> ELSE Head(ss) \o ConcatAll(Tail(ss))

-----------------------------------------------------------------------------
(* The core: cell identifiers *)

ZeroCell == <<>>

\* Children per level: the twelve base cells split in five, every other cell in four.
Branching(level) == IF level = 1 THEN 5 ELSE 4

IsValidCell(c) ==
    /\ Len(c) >= 1
    /\ Len(c) <= MAX_RESOLUTION + 1
    /\ c[1] \in 0..(NumBaseCells - 1)
    /\ \A i \in 2..Len(c) : c[i] \in 0..(Branching(i - 1) - 1)

a5_get_resolution(cell) == Len(cell) - 1

\* Deterministic total order on identifiers: numeral order, a prefix first.
RECURSIVE CellLess(_, _)
CellLess(a, b) ==
    IF a = <<>> THEN b # <<>>
    ELSE IF b = <<>> THEN FALSE
    ELSE IF Head(a) # Head(b) THEN Head(a) < Head(b)
    ELSE CellLess(Tail(a), Tail(b))

RECURSIVE SortCells(_)
SortCells(S) ==
    IF S = {} THEN <<>>
    ELSE LET m == CHOOSE x \in S : \A y \in S \ {x} : CellLess(x, y)
         IN  <<m>> \o SortCells(S \ {m})

-----------------------------------------------------------------------------
(* The core: hierarchy navigation *)

ResultU64(v, e) == [value |-> v, error |-> e]

a5_cell_to_parent(cell, parent_resolution) ==
    IF ~IsValidCell(cell) THEN ResultU64(ZeroCell, "invalid cell")
    ELSE IF parent_resolution < 0 \/ parent_resolution > MAX_RESOLUTION
         THEN ResultU64(ZeroCell, "invalid resolution")
    ELSE IF parent_resolution > a5_get_resolution(cell)
         THEN ResultU64(ZeroCell, "parent resolution exceeds cell resolution")
    ELSE ResultU64(SubSeq(cell, 1, parent_resolution + 1), NoError)

CellArray(d, e) == [data |-> d, len |-> Len(d), error |-> e]

ImmediateChildren(c) == [k \in 1..Branching(Len(c)) |-> Append(c, k - 1)]

RECURSIVE Descendants(_, _)
Descendants(c, t) ==
    IF a5_get_resolution(c) >= t THEN <<c>>
    ELSE ConcatAll([k \in 1..Branching(Len(c)) |-> Descendants(Append(c, k - 1), t)])

\* A negative resolution stands for "no target": the next level.
a5_cell_to_children(cell, child_resolution) ==
    LET target == IF child_resolution < 0 THEN a5_get_resolution(cell) + 1
                  ELSE child_resolution
    IN  IF ~IsValidCell(cell) THEN CellArray(<<>>, "invalid cell")
        ELSE IF target > MAX_RESOLUTION THEN CellArray(<<>>, "invalid resolution")
        ELSE IF target < a5_get_resolution(cell)
             THEN CellArray(<<>>, "child resolution below cell resolution")
        ELSE CellArray(Descendants(cell, target), NoError)

-----------------------------------------------------------------------------
(* The core: set reducer *)

ParentOf(c) == SubSeq(c, 1, Len(c) - 1)

IsCompleteGroup(p, S) == \A k \in 1..Branching(Len(p)) : Append(p, k - 1) \in S

\* Every complete sibling group of S replaced by its parent.
MergeOnce(S) ==
    LET parents == {ParentOf(c) : c \in {x \in S : Len(x) >= 2}}
        full == {p \in parents : IsCompleteGroup(p, S)}
    IN  (S \ {c \in S : Len(c) >= 2 /\ ParentOf(c) \in full}) \cup full

RECURSIVE CompactSet(_)
CompactSet(S) == LET T == MergeOnce(S) IN IF T = S THEN S ELSE CompactSet(T)

a5_compact(cells) ==
    IF \E i \in 1..Len(cells) : ~IsValidCell(cells[i])
    THEN CellArray(<<>>, "invalid cell")
    ELSE CellArray(SortCells(CompactSet(Range(cells))), NoError)

a5_uncompact(cells, target_resolution) ==
    IF \E i \in 1..Len(cells) : ~IsValidCell(cells[i])
    THEN CellArray(<<>>, "invalid cell")
    ELSE IF target_resolution < 0 \/ target_resolution > MAX_RESOLUTION
         THEN CellArray(<<>>, "invalid resolution")
    ELSE IF \E i \in 1..Len(cells) : a5_get_resolution(cells[i]) > target_resolution
         THEN CellArray(<<>>, "cell resolution exceeds target resolution")
    ELSE CellArray(ConcatAll([i \in 1..Len(cells) |->
                                 Descendants(cells[i], target_resolution)]), NoError)

-----------------------------------------------------------------------------
(* The core: boundary generator *)

CellBoundaryOptions(c, s) == [closed_ring |-> c, segments |-> s]

\* Point j of the s sub-segments of edge e of the cell's pentagon (a stand-in
\* for the projected coordinate pair).
LonLatDegrees(cell, e, j, s) ==
    [lon |-> <<"lon", cell, e, j, s>>, lat |-> <<"lat", cell, e, j, s>>]

LonLatDegreesArray(d, e) == [data |-> d, len |-> Len(d), error |-> e]

\* auto is the segment count the core picks when options.segments <= 0.
a5_cell_to_boundary(cell_id, options, auto) ==
    LET s == IF options.segments > 0 THEN options.segments ELSE auto
        ring == [i \in 1..(5 * s) |-> LonLatDegrees(cell_id, (i - 1) \div s, (i - 1) % s, s)]
    IN  IF ~IsValidCell(cell_id) THEN LonLatDegreesArray(<<>>, "invalid cell")
        ELSE IF options.closed_ring THEN LonLatDegreesArray(Append(ring, ring[1]), NoError)
        ELSE LonLatDegreesArray(ring, NoError)

-----------------------------------------------------------------------------
(* The core: geodesic projector *)

\* A coordinate (a double, in degrees) is held exactly, as the position it
\* selects on the tiling: a longitude is << sector, fifth, b_1, ..., b_n >>, the
\* 60-degree sector, the 12-degree fifth of the sector and the binary places
\* inside the fifth; a latitude is << band, b_1, ..., b_n >>, the 90-degree band
\* and the binary places inside the band.
RECURSIVE BinaryPlaces(_, _, _)
BinaryPlaces(p, den, n) ==
    IF n = 0 THEN <<>>
    ELSE <<(2 * p) \div den>> \o BinaryPlaces((2 * p) % den, den, n - 1)

\* A whole number of degrees of longitude; 180 is the meridian of -180.
LonDegrees(d) ==
    LET t == IF d = 180 THEN 0 ELSE d + 180
    IN  <<t \div 60, (t % 60) \div 12>> \o BinaryPlaces(t % 12, 12, MAX_RESOLUTION)

\* A whole number of degrees of latitude; 90 closes the upper band.
LatDegrees(d) ==
    LET t == d + 90
    IN  IF d = 90 THEN <<1>> \o [k \in 1..MAX_RESOLUTION |-> 1]
        ELSE <<t \div 90>> \o BinaryPlaces(t % 90, 90, MAX_RESOLUTION)

InRange(lon, lat) == lon[1] \in 0..5 /\ lat[1] \in 0..1

\* The containing base cell, then the containing child at each level.
a5_lon_lat_to_cell(lon, lat, resolution) ==
    IF ~InRange(lon, lat) THEN ResultU64(ZeroCell, "coordinate out of range")
    ELSE IF resolution < 0 \/ resolution > MAX_RESOLUTION
         THEN ResultU64(ZeroCell, "invalid resolution")
    ELSE ResultU64([i \in 1..(resolution + 1) |->
                        IF i = 1 THEN 6 * lat[1] + lon[1]
                        ELSE IF i = 2 THEN lon[2]
                        ELSE 2 * lat[i - 1] + lon[i]], NoError)

ResultLonLat(lon, lat, e) == [longitude |-> lon, latitude |-> lat, error |-> e]

\* The representative point of a cell: the middle of its extent in both axes.
a5_cell_to_lon_lat(cell) ==
    LET r == a5_get_resolution(cell)
        middle(i, first) == IF i = first THEN 1 ELSE 0
        lon == [i \in 1..(MAX_RESOLUTION + 2) |->
                   IF i = 1 THEN cell[1] % 6
                   ELSE IF i = 2 THEN (IF r >= 1 THEN cell[2] ELSE 2)
                   ELSE IF i <= r + 1 THEN cell[i] % 2
                   ELSE middle(i, IF r >= 1 THEN r + 2 ELSE 3)]
        lat == [i \in 1..(MAX_RESOLUTION + 1) |->
                   IF i = 1 THEN cell[1] \div 6
                   ELSE IF i <= r THEN cell[i + 1] \div 2
                   ELSE middle(i, IF r >= 1 THEN r + 1 ELSE 2)]
    IN  IF ~IsValidCell(cell) THEN ResultLonLat(<<>>, <<>>, "invalid cell")
        ELSE ResultLonLat(lon, lat, NoError)

-----------------------------------------------------------------------------
(* The core: per-resolution tables and the base cells *)

\* The number coefficient * 4^power_of_4.
CellCount(c, p) == [coefficient |-> c, power_of_4 |-> p]

a5_get_num_cells(resolution) ==
    IF resolution < 0 \/ resolution > MAX_RESOLUTION THEN CellCount(0, 0)
    ELSE IF resolution = 0 THEN CellCount(NumBaseCells, 0)
    ELSE CellCount(NumBaseCells * Branching(1), resolution - 1)

\* The sphere's surface divided evenly among the cells of the resolution.
a5_cell_area(resolution) == [sphere_divided_by |-> a5_get_num_cells(resolution)]

a5_get_res0_cells == CellArray([k \in 1..NumBaseCells |-> <<k - 1>>], NoError)

-----------------------------------------------------------------------------
(* The wrappers: helpers *)


\* Faulty variant: the upper bound is excluded.
ValidateResolution_Exclusive(resolution, function_name) ==
    IF resolution < 0 \/ resolution >= MAX_RESOLUTION
    THEN function_name \o ": Resolution must be between 0 and 30"
    ELSE NoError

\* Faulty variant: the lower bound is excluded.
ValidateResolution_RejectsZero(resolution, function_name) ==
    IF resolution <= 0 \/ resolution > MAX_RESOLUTION
    THEN function_name \o ": Resolution must be between 0 and 30"
    ELSE NoError

\* The message thrown, or NoError when the function returns normally.
ValidateResolution(resolution, function_name) ==
    IF resolution < 0 \/ resolution > MAX_RESOLUTION
    THEN function_name \o ": Resolution must be between 0 and 30"
    ELSE NoError

ThrowRustError(error_ptr, function_name) ==
    IF error_ptr # NoError THEN function_name \o ": " \o error_ptr ELSE NoError

\* Faulty variant: the exception does not carry arr.error.
ThrowCellArrayError_DropsMessage(arr, function_name) ==
    IF arr.error # NoError THEN function_name \o ": error" ELSE NoError

ThrowCellArrayError(arr, function_name) ==
    IF arr.error # NoError THEN function_name \o ": " \o arr.error ELSE NoError

ThrowLonLatArrayError(arr, function_name) ==
    IF arr.error # NoError THEN function_name \o ": " \o arr.error ELSE NoError

list_entry_t(o, l) == [offset |-> o, length |-> l]


\* Faulty variant: every iteration pushes data[0] instead of data[i].
PushBackAll_FirstOnly(data, len) == [i \in 1..len |-> data[1]]

\* for (i = 0; i < len; i++) ListVector::PushBack(result, data[i])
PushBackAll(data, len) == [i \in 1..len |-> data[i]]

CoreCall(name, a) == [routine |-> name, with |-> a]

\* What the lambda does with what the core hands back, in program order.  An
\* array buffer (CellArray, LonLatDegreesArray) is obtained, read and released;
\* an error string of a ResultU64 / ResultLonLat is read and freed.
Count(ev, kind) == Cardinality({i \in 1..Len(ev) : ev[i] = kind})

\* No buffer comes back: the core was not called, or it returned a plain value.
NoBuffer == <<>>

\* ThrowRustError: string(error_ptr) is copied, then free(error_ptr).
ErrorStringEvents == <<"error read", "error freed">>

\* Throw*ArrayError: string(arr.error) is copied, then a5_free_*_array(arr).
ArrayErrorEvents == <<"obtain", "read", "release">>

\* if (len == 0) { a5_free_*_array(...); return {0, 0}; }
ArrayEmptyEvents == <<"obtain", "release">>

\* The PushBack loop over data[0 .. len), then a5_free_*_array(...).
ArrayPushEvents(len) == <<"obtain">> \o [i \in 1..len |-> "read"] \o <<"release">>

\* What one call of a wrapper's lambda does.  Threw: the exception thrown, the
\* core routines invoked (core), the buffer events, and the captured offset /
\* result_size as the throw leaves them.  Returned: also the value returned and
\* the elements pushed to the list child.
Threw(msg, c, ev, off, size) ==
    [throw |-> msg, value |-> <<>>, push |-> <<>>, core |-> c, events |-> ev,
     obtained |-> Count(ev, "obtain"), released |-> Count(ev, "release"),
     offset |-> off, result_size |-> size]

Returned(v, p, c, ev, off, size) ==
    [throw |-> NoError, value |-> v, push |-> p, core |-> c, events |-> ev,
     obtained |-> Count(ev, "obtain"), released |-> Count(ev, "release"),
     offset |-> off, result_size |-> size]

-----------------------------------------------------------------------------
(* The wrappers: the lambdas handed to the executors *)


\* Faulty variant: the resolution is clamped into 0..30 instead of refused.
A5CellAreaLambda_Clamps(resolution, off, size) ==
    LET clamped == IF resolution < 0 THEN 0
                   ELSE IF resolution > MAX_RESOLUTION THEN MAX_RESOLUTION
                   ELSE resolution
    IN  Returned(a5_cell_area(clamped), <<>>,
                 <<CoreCall("a5_cell_area", <<clamped>>)>>, NoBuffer, off, size)

A5CellAreaLambda(resolution, off, size) ==
    LET invalid == ValidateResolution(resolution, "a5_cell_area")
    IN  IF invalid # NoError THEN Threw(invalid, <<>>, NoBuffer, off, size)
        ELSE Returned(a5_cell_area(resolution), <<>>,
                      <<CoreCall("a5_cell_area", <<resolution>>)>>, NoBuffer, off, size)

A5GetNumCellsLambda(resolution, off, size) ==
    LET invalid == ValidateResolution(resolution, "a5_get_num_cells")
    IN  IF invalid # NoError THEN Threw(invalid, <<>>, NoBuffer, off, size)
        ELSE Returned(a5_get_num_cells(resolution), <<>>,
                      <<CoreCall("a5_get_num_cells", <<resolution>>)>>, NoBuffer, off, size)

A5GetResolutionLambda(cell, off, size) ==
    Returned(a5_get_resolution(cell), <<>>,
             <<CoreCall("a5_get_resolution", <<cell>>)>>, NoBuffer, off, size)


\* Faulty variant: the cell handed in is returned instead of res.value.
A5CellToParentLambda_ReturnsInput(cell, parent_resolution, off, size) ==
    LET invalid == ValidateResolution(parent_resolution, "a5_cell_to_parent")
        res == a5_cell_to_parent(cell, parent_resolution)
        call == <<CoreCall("a5_cell_to_parent", <<cell, parent_resolution>>)>>
        thrown == ThrowRustError(res.error, "a5_cell_to_parent")
    IN  IF invalid # NoError THEN Threw(invalid, <<>>, NoBuffer, off, size)
        ELSE IF thrown # NoError THEN Threw(thrown, call, ErrorStringEvents, off, size)
        ELSE Returned(cell, <<>>, call, NoBuffer, off, size)

\* Faulty variant: res.error is not looked at.
A5CellToParentLambda_NoErrorCheck(cell, parent_resolution, off, size) ==
    LET invalid == ValidateResolution(parent_resolution, "a5_cell_to_parent")
        res == a5_cell_to_parent(cell, parent_resolution)
        call == <<CoreCall("a5_cell_to_parent", <<cell, parent_resolution>>)>>
    IN  IF invalid # NoError THEN Threw(invalid, <<>>, NoBuffer, off, size)
        ELSE Returned(res.value, <<>>, call, NoBuffer, off, size)

A5CellToParentLambda(cell, parent_resolution, off, size) ==
    LET invalid == ValidateResolution(parent_resolution, "a5_cell_to_parent")
        res == a5_cell_to_parent(cell, parent_resolution)
        call == <<CoreCall("a5_cell_to_parent", <<cell, parent_resolution>>)>>
        thrown == ThrowRustError(res.error, "a5_cell_to_parent")
    IN  IF invalid # NoError THEN Threw(invalid, <<>>, NoBuffer, off, size)
        ELSE IF thrown # NoError THEN Threw(thrown, call, ErrorStringEvents, off, size)
        ELSE Returned(res.value, <<>>, call, NoBuffer, off, size)


\* Faulty variant: the core is handed the latitude first.
A5LonLatToCellLambda_Swapped(lon, lat, resolution, off, size) ==
    LET invalid == ValidateResolution(resolution, "a5_lonlat_to_cell")
        res == a5_lon_lat_to_cell(lat, lon, resolution)
        call == <<CoreCall("a5_lon_lat_to_cell", <<lat, lon, resolution>>)>>
        thrown == ThrowRustError(res.error, "a5_lonlat_to_cell")
    IN  IF invalid # NoError THEN Threw(invalid, <<>>, NoBuffer, off, size)
        ELSE IF thrown # NoError THEN Threw(thrown, call, ErrorStringEvents, off, size)
        ELSE Returned(res.value, <<>>, call, NoBuffer, off, size)

\* Faulty variant: the longitude is wrapped and the latitude clamped into range
\* before the core is called.
A5LonLatToCellLambda_Wraps(lon, lat, resolution, off, size) ==
    LET invalid == ValidateResolution(resolution, "a5_lonlat_to_cell")
        wrapped == [lon EXCEPT ![1] = lon[1] % 6]
        clamped == [lat EXCEPT ![1] = IF lat[1] < 0 THEN 0 ELSE IF lat[1] > 1 THEN 1 ELSE lat[1]]
        res == a5_lon_lat_to_cell(wrapped, clamped, resolution)
        call == <<CoreCall("a5_lon_lat_to_cell", <<wrapped, clamped, resolution>>)>>
        thrown == ThrowRustError(res.error, "a5_lonlat_to_cell")
    IN  IF invalid # NoError THEN Threw(invalid, <<>>, NoBuffer, off, size)
        ELSE IF thrown # NoError THEN Threw(thrown, call, ErrorStringEvents, off, size)
        ELSE Returned(res.value, <<>>, call, NoBuffer, off, size)

A5LonLatToCellLambda(lon, lat, resolution, off, size) ==
    LET invalid == ValidateResolution(resolution, "a5_lonlat_to_cell")
        res == a5_lon_lat_to_cell(lon, lat, resolution)
        call == <<CoreCall("a5_lon_lat_to_cell", <<lon, lat, resolution>>)>>
        thrown == ThrowRustError(res.error, "a5_lonlat_to_cell")
    IN  IF invalid # NoError THEN Threw(invalid, <<>>, NoBuffer, off, size)
        ELSE IF thrown # NoError THEN Threw(thrown, call, ErrorStringEvents, off, size)
        ELSE Returned(res.value, <<>>, call, NoBuffer, off, size)

\* FlatVector::SetNull(result, i, true)
NullRow == <<>>


\* Faulty variant: the latitude is written to element 0, the longitude to element 1.
A5CellToLonLatRow_LatitudeFirst(cell, valid, off, size) ==
    LET res == a5_cell_to_lon_lat(cell)
        call == <<CoreCall("a5_cell_to_lon_lat", <<cell>>)>>
        thrown == ThrowRustError(res.error, "a5_cell_to_lonlat")
    IN  IF ~valid THEN Returned(NullRow, <<>>, <<>>, NoBuffer, off, size)
        ELSE IF thrown # NoError THEN Threw(thrown, call, ErrorStringEvents, off, size)
        ELSE Returned(<<res.latitude, res.longitude>>, <<>>, call, NoBuffer, off, size)

\* Faulty variant: the validity mask is not consulted.
A5CellToLonLatRow_NoNullCheck(cell, valid, off, size) ==
    LET res == a5_cell_to_lon_lat(cell)
        call == <<CoreCall("a5_cell_to_lon_lat", <<cell>>)>>
        thrown == ThrowRustError(res.error, "a5_cell_to_lonlat")
    IN  IF thrown # NoError THEN Threw(thrown, call, ErrorStringEvents, off, size)
        ELSE Returned(<<res.longitude, res.latitude>>, <<>>, call, NoBuffer, off, size)

\* One turn of the loop of A5CellToLonLatFun: data_ptr[i * 2], data_ptr[i * 2 + 1].
A5CellToLonLatRow(cell, valid, off, size) ==
    LET res == a5_cell_to_lon_lat(cell)
        call == <<CoreCall("a5_cell_to_lon_lat", <<cell>>)>>
        thrown == ThrowRustError(res.error, "a5_cell_to_lonlat")
    IN  IF ~valid THEN Returned(NullRow, <<>>, <<>>, NoBuffer, off, size)
        ELSE IF thrown # NoError THEN Threw(thrown, call, ErrorStringEvents, off, size)
        ELSE Returned(<<res.longitude, res.latitude>>, <<>>, call, NoBuffer, off, size)


\* Faulty variant: child_result.error is not looked at.
A5CellToChildrenLambda2_NoErrorCheck(cell_id, child_resolution, off, size) ==
    LET invalid == ValidateResolution(child_resolution, "a5_cell_to_children")
        child_result == a5_cell_to_children(cell_id, child_resolution)
        call == <<CoreCall("a5_cell_to_children", <<cell_id, child_resolution>>)>>
    IN  IF invalid # NoError THEN Threw(invalid, <<>>, NoBuffer, off, size)
        ELSE IF child_result.len = 0
             THEN Returned(list_entry_t(0, 0), <<>>, call, ArrayEmptyEvents, off, size)
        ELSE Returned(list_entry_t(off, child_result.len),
                      PushBackAll(child_result.data, child_result.len),
                      call, ArrayPushEvents(child_result.len), off + child_result.len, size)

\* Faulty variant: the entry's length is one short of what was pushed.
A5CellToChildrenLambda2_ShortEntry(cell_id, child_resolution, off, size) ==
    LET invalid == ValidateResolution(child_resolution, "a5_cell_to_children")
        child_result == a5_cell_to_children(cell_id, child_resolution)
        call == <<CoreCall("a5_cell_to_children", <<cell_id, child_resolution>>)>>
        thrown == ThrowCellArrayError(child_result, "a5_cell_to_children")
    IN  IF invalid # NoError THEN Threw(invalid, <<>>, NoBuffer, off, size)
        ELSE IF thrown # NoError THEN Threw(thrown, call, ArrayErrorEvents, off, size)
        ELSE IF child_result.len = 0
             THEN Returned(list_entry_t(0, 0), <<>>, call, ArrayEmptyEvents, off, size)
        ELSE Returned(list_entry_t(off, child_result.len - 1),
                      PushBackAll(child_result.data, child_result.len),
                      call, ArrayPushEvents(child_result.len), off + child_result.len, size)

\* Faulty variant: the resolution check comes after the children were pushed.
A5CellToChildrenLambda2_ValidatesLate(cell_id, child_resolution, off, size) ==
    LET invalid == ValidateResolution(child_resolution, "a5_cell_to_children")
        child_result == a5_cell_to_children(cell_id, child_resolution)
        call == <<CoreCall("a5_cell_to_children", <<cell_id, child_resolution>>)>>
        thrown == ThrowCellArrayError(child_result, "a5_cell_to_children")
        pushed == PushBackAll(child_result.data, child_result.len)
    IN  IF thrown # NoError THEN Threw(thrown, call, ArrayErrorEvents, off, size)
        ELSE IF child_result.len = 0
             THEN Returned(list_entry_t(0, 0), <<>>, call, ArrayEmptyEvents, off, size)
        ELSE IF invalid # NoError
             THEN [Threw(invalid, call, ArrayPushEvents(child_result.len),
                         off + child_result.len, size) EXCEPT !.push = pushed]
        ELSE Returned(list_entry_t(off, child_result.len), pushed,
                      call, ArrayPushEvents(child_result.len), off + child_result.len, size)

\* args.ColumnCount() == 2
A5CellToChildrenLambda2(cell_id, child_resolution, off, size) ==
    LET invalid == ValidateResolution(child_resolution, "a5_cell_to_children")
        child_result == a5_cell_to_children(cell_id, child_resolution)
        call == <<CoreCall("a5_cell_to_children", <<cell_id, child_resolution>>)>>
        thrown == ThrowCellArrayError(child_result, "a5_cell_to_children")
    IN  IF invalid # NoError THEN Threw(invalid, <<>>, NoBuffer, off, size)
        ELSE IF thrown # NoError THEN Threw(thrown, call, ArrayErrorEvents, off, size)
        ELSE IF child_result.len = 0
             THEN Returned(list_entry_t(0, 0), <<>>, call, ArrayEmptyEvents, off, size)
        ELSE Returned(list_entry_t(off, child_result.len),
                      PushBackAll(child_result.data, child_result.len),
                      call, ArrayPushEvents(child_result.len), off + child_result.len, size)


\* Faulty variant: offset is not advanced past the row's children.
A5CellToChildrenLambda1_NoAdvance(cell_id, off, size) ==
    LET child_result == a5_cell_to_children(cell_id, -1)
        call == <<CoreCall("a5_cell_to_children", <<cell_id, -1>>)>>
        thrown == ThrowCellArrayError(child_result, "a5_cell_to_children")
    IN  IF thrown # NoError THEN Threw(thrown, call, ArrayErrorEvents, off, size)
        ELSE IF child_result.len = 0
             THEN Returned(list_entry_t(0, 0), <<>>, call, ArrayEmptyEvents, off, size)
        ELSE Returned(list_entry_t(off, child_result.len),
                      PushBackAll(child_result.data, child_result.len),
                      call, ArrayPushEvents(child_result.len), off, size)

\* Faulty variant: the one-argument overload passes 0 as the target resolution.
A5CellToChildrenLambda1_PassesZero(cell_id, off, size) ==
    LET child_result == a5_cell_to_children(cell_id, 0)
        call == <<CoreCall("a5_cell_to_children", <<cell_id, 0>>)>>
        thrown == ThrowCellArrayError(child_result, "a5_cell_to_children")
    IN  IF thrown # NoError THEN Threw(thrown, call, ArrayErrorEvents, off, size)
        ELSE IF child_result.len = 0
             THEN Returned(list_entry_t(0, 0), <<>>, call, ArrayEmptyEvents, off, size)
        ELSE Returned(list_entry_t(off, child_result.len),
                      PushBackAll(child_result.data, child_result.len),
                      call, ArrayPushEvents(child_result.len), off + child_result.len, size)

\* args.ColumnCount() == 1
A5CellToChildrenLambda1(cell_id, off, size) ==
    LET child_result == a5_cell_to_children(cell_id, -1)
        call == <<CoreCall("a5_cell_to_children", <<cell_id, -1>>)>>
        thrown == ThrowCellArrayError(child_result, "a5_cell_to_children")
    IN  IF thrown # NoError THEN Threw(thrown, call, ArrayErrorEvents, off, size)
        ELSE IF child_result.len = 0
             THEN Returned(list_entry_t(0, 0), <<>>, call, ArrayEmptyEvents, off, size)
        ELSE Returned(list_entry_t(off, child_result.len),
                      PushBackAll(child_result.data, child_result.len),
                      call, ArrayPushEvents(child_result.len), off + child_result.len, size)


\* Faulty variant: cell 0 is handed to the core like any other cell.
compute_boundary_NoZeroCheck(cell_id, closed_ring, segments, auto, off, size) ==
    LET options == CellBoundaryOptions(closed_ring, segments)
        boundary_result == a5_cell_to_boundary(cell_id, options, auto)
        call == <<CoreCall("a5_cell_to_boundary", <<cell_id, options>>)>>
        thrown == ThrowLonLatArrayError(boundary_result, "a5_cell_to_boundary")
        coords == [i \in 1..boundary_result.len |->
                      <<boundary_result.data[i].lon, boundary_result.data[i].lat>>]
    IN  IF thrown # NoError THEN Threw(thrown, call, ArrayErrorEvents, off, size)
        ELSE IF boundary_result.len = 0
             THEN Returned(list_entry_t(0, 0), <<>>, call, ArrayEmptyEvents, off, size)
        ELSE Returned(list_entry_t(off, boundary_result.len),
                      PushBackAll(coords, boundary_result.len),
                      call, ArrayPushEvents(boundary_result.len), off + boundary_result.len, size)

\* Faulty variant: the row's entry is built after offset has been advanced.
compute_boundary_EntryAfterAdvance(cell_id, closed_ring, segments, auto, off, size) ==
    LET options == CellBoundaryOptions(closed_ring, segments)
        boundary_result == a5_cell_to_boundary(cell_id, options, auto)
        call == <<CoreCall("a5_cell_to_boundary", <<cell_id, options>>)>>
        thrown == ThrowLonLatArrayError(boundary_result, "a5_cell_to_boundary")
        coords == [i \in 1..boundary_result.len |->
                      <<boundary_result.data[i].lon, boundary_result.data[i].lat>>]
    IN  IF cell_id = ZeroCell
        THEN Returned(list_entry_t(0, 0), <<>>, <<>>, NoBuffer, off, size)
        ELSE IF thrown # NoError THEN Threw(thrown, call, ArrayErrorEvents, off, size)
        ELSE IF boundary_result.len = 0
             THEN Returned(list_entry_t(0, 0), <<>>, call, ArrayEmptyEvents, off, size)
        ELSE Returned(list_entry_t(off + boundary_result.len, boundary_result.len),
                      PushBackAll(coords, boundary_result.len),
                      call, ArrayPushEvents(boundary_result.len), off + boundary_result.len, size)

compute_boundary(cell_id, closed_ring, segments, auto, off, size) ==
    LET options == CellBoundaryOptions(closed_ring, segments)
        boundary_result == a5_cell_to_boundary(cell_id, options, auto)
        call == <<CoreCall("a5_cell_to_boundary", <<cell_id, options>>)>>
        thrown == ThrowLonLatArrayError(boundary_result, "a5_cell_to_boundary")
        coords == [i \in 1..boundary_result.len |->
                      <<boundary_result.data[i].lon, boundary_result.data[i].lat>>]
    IN  IF cell_id = ZeroCell
        THEN Returned(list_entry_t(0, 0), <<>>, <<>>, NoBuffer, off, size)
        ELSE IF thrown # NoError THEN Threw(thrown, call, ArrayErrorEvents, off, size)
        ELSE IF boundary_result.len = 0
             THEN Returned(list_entry_t(0, 0), <<>>, call, ArrayEmptyEvents, off, size)
        ELSE Returned(list_entry_t(off, boundary_result.len),
                      PushBackAll(coords, boundary_result.len),
                      call, ArrayPushEvents(boundary_result.len), off + boundary_result.len, size)


\* Faulty variant: one segment per edge is asked for instead of "choose for me".
A5CellToBoundaryLambda1_OneSegment(cell_id, auto, off, size) ==
    compute_boundary(cell_id, TRUE, 1, auto, off, size)

A5CellToBoundaryLambda1(cell_id, auto, off, size) ==
    compute_boundary(cell_id, TRUE, -1, auto, off, size)

A5CellToBoundaryLambda2(cell_id, closed_ring, auto, off, size) ==
    compute_boundary(cell_id, closed_ring, -1, auto, off, size)


\* Faulty variant: one segment per edge is taken for "choose for me".
A5CellToBoundaryLambda3_SegLeOne(cell_id, closed_ring, segments, auto, off, size) ==
    compute_boundary(cell_id, closed_ring, IF segments <= 1 THEN -1 ELSE segments,
                     auto, off, size)

A5CellToBoundaryLambda3(cell_id, closed_ring, segments, auto, off, size) ==
    compute_boundary(cell_id, closed_ring, IF segments <= 0 THEN -1 ELSE segments,
                     auto, off, size)


\* Faulty variant: the row's offset into the flat child is dropped.
ListSlice_IgnoresOffset(data, cell_list_entry) ==
    SubSeq(data, 1, cell_list_entry.length)

\* cell_list_data + cell_list_entry.offset, cell_list_entry.length
ListSlice(data, cell_list_entry) ==
    SubSeq(data, cell_list_entry.offset + 1,
           cell_list_entry.offset + cell_list_entry.length)


\* Faulty variant: the copying loop stops one cell early.
A5GetRes0CellsValue_StopsEarly(off, size) ==
    LET cells == a5_get_res0_cells
        call == <<CoreCall("a5_get_res0_cells", <<>>)>>
        cell_vec == [i \in 1..(cells.len - 1) |-> cells.data[i]]
    IN  Returned(list_entry_t(0, Len(cell_vec)), cell_vec,
                 call, ArrayPushEvents(Len(cell_vec)), off, size)

\* The whole of A5GetRes0CellsFun: one constant LIST value.
A5GetRes0CellsValue(off, size) ==
    LET cells == a5_get_res0_cells
        call == <<CoreCall("a5_get_res0_cells", <<>>)>>
        cell_vec == [i \in 1..cells.len |-> cells.data[i]]
    IN  Returned(list_entry_t(0, Len(cell_vec)), cell_vec,
                 call, ArrayPushEvents(Len(cell_vec)), off, size)

\* Faulty variant: offset is not advanced past the row's cells.
A5CompactLambda_NoAdvance(data, cell_list_entry, off, size) ==
    LET input == ListSlice(data, cell_list_entry)
        compact_result == a5_compact(input)
        call == <<CoreCall("a5_compact", <<input>>)>>
        thrown == ThrowCellArrayError(compact_result, "a5_compact")
    IN  IF thrown # NoError THEN Threw(thrown, call, ArrayErrorEvents, off, size)
        ELSE IF compact_result.len = 0
             THEN Returned(list_entry_t(0, 0), <<>>, call, ArrayEmptyEvents, off, size)
        ELSE Returned(list_entry_t(off, compact_result.len),
                      PushBackAll(compact_result.data, compact_result.len),
                      call, ArrayPushEvents(compact_result.len), off, size + compact_result.len)

\* Faulty variant: on the error path the buffer is not handed back.
A5CompactLambda_LeaksOnError(data, cell_list_entry, off, size) ==
    LET input == ListSlice(data, cell_list_entry)
        compact_result == a5_compact(input)
        call == <<CoreCall("a5_compact", <<input>>)>>
        thrown == ThrowCellArrayError(compact_result, "a5_compact")
    IN  IF thrown # NoError THEN Threw(thrown, call, <<"obtain", "read">>, off, size)
        ELSE IF compact_result.len = 0
             THEN Returned(list_entry_t(0, 0), <<>>, call, ArrayEmptyEvents, off, size)
        ELSE Returned(list_entry_t(off, compact_result.len),
                      PushBackAll(compact_result.data, compact_result.len),
                      call, ArrayPushEvents(compact_result.len), off + compact_result.len,
                      size + compact_result.len)

A5CompactLambda(data, cell_list_entry, off, size) ==
    LET input == ListSlice(data, cell_list_entry)
        compact_result == a5_compact(input)
        call == <<CoreCall("a5_compact", <<input>>)>>
        thrown == ThrowCellArrayError(compact_result, "a5_compact")
    IN  IF thrown # NoError THEN Threw(thrown, call, ArrayErrorEvents, off, size)
        ELSE IF compact_result.len = 0
             THEN Returned(list_entry_t(0, 0), <<>>, call, ArrayEmptyEvents, off, size)
        ELSE Returned(list_entry_t(off, compact_result.len),
                      PushBackAll(compact_result.data, compact_result.len),
                      call, ArrayPushEvents(compact_result.len), off + compact_result.len,
                      size + compact_result.len)


\* Faulty variant: offset is not advanced past the row's cells.
A5UncompactLambda_NoAdvance(data, cell_list_entry, target_resolution, off, size) ==
    LET invalid == ValidateResolution(target_resolution, "a5_uncompact")
        input == ListSlice(data, cell_list_entry)
        compact_result == a5_uncompact(input, target_resolution)
        call == <<CoreCall("a5_uncompact", <<input, target_resolution>>)>>
        thrown == ThrowCellArrayError(compact_result, "a5_uncompact")
    IN  IF invalid # NoError THEN Threw(invalid, <<>>, NoBuffer, off, size)
        ELSE IF thrown # NoError THEN Threw(thrown, call, ArrayErrorEvents, off, size)
        ELSE IF compact_result.len = 0
             THEN Returned(list_entry_t(0, 0), <<>>, call, ArrayEmptyEvents, off, size)
        ELSE Returned(list_entry_t(off, compact_result.len),
                      PushBackAll(compact_result.data, compact_result.len),
                      call, ArrayPushEvents(compact_result.len), off, size + compact_result.len)

\* Faulty variant: the core's error indicator is not looked at.
A5UncompactLambda_NoErrorCheck(data, cell_list_entry, target_resolution, off, size) ==
    LET invalid == ValidateResolution(target_resolution, "a5_uncompact")
        input == ListSlice(data, cell_list_entry)
        compact_result == a5_uncompact(input, target_resolution)
        call == <<CoreCall("a5_uncompact", <<input, target_resolution>>)>>
    IN  IF invalid # NoError THEN Threw(invalid, <<>>, NoBuffer, off, size)
        ELSE IF compact_result.len = 0
             THEN Returned(list_entry_t(0, 0), <<>>, call, ArrayEmptyEvents, off, size)
        ELSE Returned(list_entry_t(off, compact_result.len),
                      PushBackAll(compact_result.data, compact_result.len),
                      call, ArrayPushEvents(compact_result.len), off + compact_result.len,
                      size + compact_result.len)

\* Faulty variant: on the error path the buffer is released before its message
\* is copied into the exception text.
A5UncompactLambda_FreesBeforeCopy(data, cell_list_entry, target_resolution, off, size) ==
    LET invalid == ValidateResolution(target_resolution, "a5_uncompact")
        input == ListSlice(data, cell_list_entry)
        compact_result == a5_uncompact(input, target_resolution)
        call == <<CoreCall("a5_uncompact", <<input, target_resolution>>)>>
        thrown == ThrowCellArrayError(compact_result, "a5_uncompact")
    IN  IF invalid # NoError THEN Threw(invalid, <<>>, NoBuffer, off, size)
        ELSE IF thrown # NoError
             THEN Threw(thrown, call, <<"obtain", "release", "read">>, off, size)
        ELSE IF compact_result.len = 0
             THEN Returned(list_entry_t(0, 0), <<>>, call, ArrayEmptyEvents, off, size)
        ELSE Returned(list_entry_t(off, compact_result.len),
                      PushBackAll(compact_result.data, compact_result.len),
                      call, ArrayPushEvents(compact_result.len), off + compact_result.len,
                      size + compact_result.len)

A5UncompactLambda(data, cell_list_entry, target_resolution, off, size) ==
    LET invalid == ValidateResolution(target_resolution, "a5_uncompact")
        input == ListSlice(data, cell_list_entry)
        compact_result == a5_uncompact(input, target_resolution)
        call == <<CoreCall("a5_uncompact", <<input, target_resolution>>)>>
        thrown == ThrowCellArrayError(compact_result, "a5_uncompact")
    IN  IF invalid # NoError THEN Threw(invalid, <<>>, NoBuffer, off, size)
        ELSE IF thrown # NoError THEN Threw(thrown, call, ArrayErrorEvents, off, size)
        ELSE IF compact_result.len = 0
             THEN Returned(list_entry_t(0, 0), <<>>, call, ArrayEmptyEvents, off, size)
        ELSE Returned(list_entry_t(off, compact_result.len),
                      PushBackAll(compact_result.data, compact_result.len),
                      call, ArrayPushEvents(compact_result.len), off + compact_result.len,
                      size + compact_result.len)

-----------------------------------------------------------------------------
(* The wrappers of a5_extension.cpp, registered as a5_area, a5_num_cells,      *)
(* a5_cell and a5_parent                                                       *)

A5AreaLambda(resolution, off, size) ==
    IF resolution > MAX_RESOLUTION
    THEN Threw("Resolution must be between 0 and 30", <<>>, NoBuffer, off, size)
    ELSE Returned(a5_cell_area(resolution), <<>>,
                  <<CoreCall("a5_cell_area", <<resolution>>)>>, NoBuffer, off, size)

A5NumCellsLambda(resolution, off, size) ==
    IF resolution > MAX_RESOLUTION
    THEN Threw("Resolution must be between 0 and 30", <<>>, NoBuffer, off, size)
    ELSE Returned(a5_get_num_cells(resolution), <<>>,
                  <<CoreCall("a5_get_num_cells", <<resolution>>)>>, NoBuffer, off, size)

A5CellLambda(lon, lat, resolution, off, size) ==
    LET res == a5_lon_lat_to_cell(lon, lat, resolution)
        call == <<CoreCall("a5_lon_lat_to_cell", <<lon, lat, resolution>>)>>
    IN  IF resolution > MAX_RESOLUTION
        THEN Threw("Resolution must be between 0 and 30", <<>>, NoBuffer, off, size)
        ELSE IF res.error # NoError THEN Threw(res.error, call, <<"error read">>, off, size)
        ELSE Returned(res.value, <<>>, call, NoBuffer, off, size)

A5ParentLambda(cell, parent_resolution, off, size) ==
    LET res == a5_cell_to_parent(cell, parent_resolution)
        call == <<CoreCall("a5_cell_to_parent", <<cell, parent_resolution>>)>>
    IN  IF parent_resolution > MAX_RESOLUTION
        THEN Threw("Resolution must be between 0 and 30", <<>>, NoBuffer, off, size)
        ELSE IF res.error # NoError THEN Threw(res.error, call, <<"error read">>, off, size)
        ELSE Returned(res.value, <<>>, call, NoBuffer, off, size)

-----------------------------------------------------------------------------
(* Inputs *)

Spine == [i \in 1..(MAX_RESOLUTION + 1) |-> IF i = 1 THEN 0 ELSE i % 4]

Deep29 == SubSeq(Spine, 1, MAX_RESOLUTION)

ValidCells ==
    {<<0>>, <<11>>, <<11, 4, 3>>, Deep29}
        \cup {<<0, q>> : q \in 0..4}
        \cup {<<0, 0, k>> : k \in 0..3}
        \cup {Append(Deep29, k) : k \in 0..3}

MalformedCells == {<<12>>, <<0, 5>>, <<0, 0, 4>>, Append(Spine, 0)}

Cells == ValidCells \cup MalformedCells \cup {ZeroCell}

Resolutions == {-2, -1, 0, 1, 2, 3, 28, 29, 30, 31}

Segments == (-1)..MaxSegments

AutoSegments == 1..MaxAutoSegments

\* The row does not expand a cell by more than MaxDescent levels.
WithinDescent(c, t) == ~IsValidCell(c) \/ t - a5_get_resolution(c) <= MaxDescent

Reverse(s) == [i \in 1..Len(s) |-> s[Len(s) + 1 - i]]

SetReducerCells ==
    {<<0, 0, k>> : k \in 0..3} \cup {<<0, q>> : q \in 1..4} \cup {<<0, 0>>, <<11>>}

\* Every subset of SetReducerCells, ascending.
SortedLists == {SortCells(S) : S \in SUBSET SetReducerCells}

InvalidLists == {<<ZeroCell>>, <<<<0, 1>>, <<12>>>>, <<<<0, 0, 4>>, <<0, 0, 0>>>>}

\* The same sets descending and with every cell repeated.
CompactLists ==
    SortedLists \cup {Reverse(l) : l \in SortedLists}
        \cup {l \o Reverse(l) : l \in SortedLists} \cup InvalidLists

UncompactLists == SortedLists \cup InvalidLists \cup {<<<<0, 1>>, <<0, 1>>>>}

BatchCells == {<<0>>, <<0, 1>>, <<0, 0, 2>>, ZeroCell}

BatchResolutions == {0, 1, 31}

BatchLists ==
    {<<>>, <<<<0, 1>>>>, <<ZeroCell>>,
     <<<<0, 0, 3>>, <<0, 0, 1>>, <<0, 0, 0>>, <<0, 0, 2>>>>,
     <<<<0, 0, 3>>, <<0, 0, 1>>, <<0, 0, 0>>>>}

SeqsUpTo(S, n) == UNION {[1..k -> S] : k \in 2..n}

\* Whole degrees, in and out of range, and the representative points of cells.
Points ==
    {<<LonDegrees(p[1]), LatDegrees(p[2])>> :
        p \in {<<0, 0>>, <<-180, -90>>, <<180, 90>>, <<-1, 52>>, <<73, -45>>,
               <<181, 0>>, <<-181, 0>>, <<0, 91>>, <<0, -91>>}}
      \cup {<<a5_cell_to_lon_lat(c).longitude, a5_cell_to_lon_lat(c).latitude>> :
                c \in {<<7>>, <<11, 4, 3>>, Append(Deep29, 3)}}

ProjectorResolutions == {-1, 0, 1, 2, 10, 15, 29, 30, 31}

BatchPoints == {<<LonDegrees(0), LatDegrees(0)>>, <<LonDegrees(181), LatDegrees(0)>>}

\* The registered overloads: <<name, argument count>>.
Overloads ==
    {<<"a5_cell_area", 1>>, <<"a5_get_num_cells", 1>>,
     <<"a5_lonlat_to_cell", 3>>, <<"a5_cell_to_lonlat", 1>>,
     <<"a5_get_res0_cells", 0>>,
     <<"a5_get_resolution", 1>>, <<"a5_cell_to_parent", 2>>,
     <<"a5_cell_to_children", 2>>, <<"a5_cell_to_children", 1>>,
     <<"a5_cell_to_boundary", 1>>, <<"a5_cell_to_boundary", 2>>,
     <<"a5_cell_to_boundary", 3>>,
     <<"a5_compact", 1>>, <<"a5_uncompact", 2>>}

\* The functions a5_extension.cpp registers, of those modelled here.
EarlierOverloads ==
    {<<"a5_area", 1>>, <<"a5_num_cells", 1>>, <<"a5_cell", 3>>, <<"a5_parent", 2>>}

Rows(o) ==
    CASE o = <<"a5_cell_area", 1>> -> {<<r>> : r \in Resolutions}
      [] o = <<"a5_area", 1>> -> {<<r>> : r \in Resolutions}
      [] o = <<"a5_num_cells", 1>> -> {<<r>> : r \in Resolutions}
      [] o = <<"a5_cell", 3>> ->
            {<<p[1], p[2], r>> : p \in Points, r \in ProjectorResolutions}
      [] o = <<"a5_parent", 2>> -> Cells \X Resolutions
      [] o = <<"a5_get_num_cells", 1>> -> {<<r>> : r \in Resolutions}
      [] o = <<"a5_lonlat_to_cell", 3>> ->
            {<<p[1], p[2], r>> : p \in Points, r \in ProjectorResolutions}
      [] o = <<"a5_cell_to_lonlat", 1>> -> {<<c>> : c \in Cells}
      [] o = <<"a5_get_res0_cells", 0>> -> {<<>>}
      [] o = <<"a5_get_resolution", 1>> -> {<<c>> : c \in Cells}
      [] o = <<"a5_cell_to_parent", 2>> -> Cells \X Resolutions
      [] o = <<"a5_cell_to_children", 2>> ->
            {r \in Cells \X Resolutions : WithinDescent(r[1], r[2])}
      [] o = <<"a5_cell_to_children", 1>> -> {<<c>> : c \in Cells}
      [] o = <<"a5_cell_to_boundary", 1>> -> {<<c>> : c \in Cells}
      [] o = <<"a5_cell_to_boundary", 2>> -> Cells \X BOOLEAN
      [] o = <<"a5_cell_to_boundary", 3>> -> Cells \X BOOLEAN \X Segments
      [] o = <<"a5_compact", 1>> -> {<<l>> : l \in CompactLists}
      [] o = <<"a5_uncompact", 2>> ->
            {r \in UncompactLists \X Resolutions :
                \A i \in 1..Len(r[1]) : WithinDescent(r[1][i], r[2])}

BatchRows(o) ==
    CASE o = <<"a5_cell_area", 1>> -> {<<r>> : r \in BatchResolutions}
      [] o = <<"a5_area", 1>> -> {<<r>> : r \in BatchResolutions}
      [] o = <<"a5_num_cells", 1>> -> {<<r>> : r \in BatchResolutions}
      [] o = <<"a5_cell", 3>> ->
            {<<p[1], p[2], r>> : p \in BatchPoints, r \in {1, 31}}
      [] o = <<"a5_parent", 2>> -> BatchCells \X BatchResolutions
      [] o = <<"a5_get_num_cells", 1>> -> {<<r>> : r \in BatchResolutions}
      [] o = <<"a5_lonlat_to_cell", 3>> ->
            {<<p[1], p[2], r>> : p \in BatchPoints, r \in {1, 31}}
      [] o = <<"a5_cell_to_lonlat", 1>> -> {<<c>> : c \in BatchCells}
      [] o = <<"a5_get_res0_cells", 0>> -> {}
      [] o = <<"a5_get_resolution", 1>> -> {<<c>> : c \in BatchCells}
      [] o = <<"a5_cell_to_parent", 2>> -> BatchCells \X BatchResolutions
      [] o = <<"a5_cell_to_children", 2>> ->
            {r \in BatchCells \X BatchResolutions : WithinDescent(r[1], r[2])}
      [] o = <<"a5_cell_to_children", 1>> -> {<<c>> : c \in BatchCells}
      [] o = <<"a5_cell_to_boundary", 1>> -> {<<c>> : c \in BatchCells}
      [] o = <<"a5_cell_to_boundary", 2>> -> BatchCells \X BOOLEAN
      [] o = <<"a5_cell_to_boundary", 3>> -> BatchCells \X BOOLEAN \X {0, 1}
      [] o = <<"a5_compact", 1>> -> {<<l>> : l \in BatchLists}
      [] o = <<"a5_uncompact", 2>> -> BatchLists \X {2, 31}

\* A chunk is one row of the full input space, or a batch of 2..MaxRows rows.
Chunks(o) == {<<r>> : r \in Rows(o)} \cup SeqsUpTo(BatchRows(o), MaxRows)

TakesList(o) == o[1] \in {"a5_compact", "a5_uncompact"}

\* Only A5CellToLonLatFun reads the validity mask itself; the executors of the
\* other wrappers hand their lambdas valid rows only.
Validities(o, chunk) ==
    IF o[1] = "a5_cell_to_lonlat" THEN [1..Len(chunk) -> BOOLEAN]
    ELSE {[i \in 1..Len(chunk) |-> TRUE]}

\* A LIST column as the host lays it out: one list_entry_t per row over one
\* flat child holding the rows' lists back to back.
RECURSIVE LengthBefore(_, _)
LengthBefore(chunk, i) ==
    IF i = 1 THEN 0 ELSE LengthBefore(chunk, i - 1) + Len(chunk[i - 1][1])

ListColumn(chunk) ==
    [i \in 1..Len(chunk) |->
        <<list_entry_t(LengthBefore(chunk, i), Len(chunk[i][1]))>> \o Tail(chunk[i])]

ListChild(chunk) == ConcatAll([i \in 1..Len(chunk) |-> chunk[i][1]])

-----------------------------------------------------------------------------
(* The executor *)

ColumnCount == Len(args[1])

\* An invocation's own state: its chunk, its result vector, and the locals of
\* the wrapper function it runs.
Local ==
    [pc |-> pc, fn |-> fn, args |-> args, validity |-> validity,
     cell_list_data |-> cell_list_data, row |-> row, result |-> result,
     child |-> child, offset |-> offset, result_size |-> result_size,
     raised |-> raised, calls |-> calls, obtained |-> obtained,
     released |-> released, events |-> events]

NotStarted ==
    [pc |-> "idle", fn |-> "none", args |-> <<>>, validity |-> <<>>,
     cell_list_data |-> <<>>, row |-> 1, result |-> <<>>,
     child |-> <<>>, offset |-> 0, result_size |-> 0,
     raised |-> NoError, calls |-> <<>>, obtained |-> 0,
     released |-> 0, events |-> <<>>]

Init ==
    /\ pc = "idle"
    /\ fn = "none"
    /\ args = <<>>
    /\ validity = <<>>
    /\ cell_list_data = <<>>
    /\ row = 1
    /\ result = <<>>
    /\ child = <<>>
    /\ offset = 0
    /\ result_size = 0
    /\ raised = NoError
    /\ calls = <<>>
    /\ obtained = 0
    /\ released = 0
    /\ events = <<>>
    /\ other = NotStarted

\* The host calls a registered function on a chunk; the wrapper sets up its
\* locals (uint64_t offset = 0, result_size = the size of the empty result).
Invoke ==
    /\ pc = "idle"
    /\ \E o \in Overloads \cup EarlierOverloads : \E chunk \in Chunks(o) :
        /\ fn' = o[1]
        /\ args' = IF TakesList(o) THEN ListColumn(chunk) ELSE chunk
        /\ validity' \in Validities(o, chunk)
        /\ cell_list_data' = IF TakesList(o) THEN ListChild(chunk) ELSE <<>>
    /\ pc' = "running"
    /\ row' = 1
    /\ result' = <<>>
    /\ child' = <<>>
    /\ offset' = 0
    /\ result_size' = 0
    /\ raised' = NoError
    /\ calls' = <<>>
    /\ obtained' = 0
    /\ released' = 0
    /\ events' = <<>>
    /\ UNCHANGED other

\* One row through a lambda whose effect is e.
Step(e) ==
    /\ calls' = calls \o e.core
    /\ obtained' = obtained + e.obtained
    /\ released' = released + e.released
    /\ events' = events \o e.events
    /\ child' = child \o e.push
    /\ offset' = e.offset
    /\ result_size' = e.result_size
    /\ IF e.throw # NoError
       THEN /\ raised' = e.throw
            /\ pc' = "failed"
            /\ UNCHANGED <<row, result>>
       ELSE /\ result' = Append(result, e.value)
            /\ row' = row + 1
            /\ pc' = IF row = Len(args) THEN "done" ELSE "running"
            /\ UNCHANGED raised
    /\ UNCHANGED <<fn, args, validity, cell_list_data, other>>

A5CellAreaFun ==
    /\ pc = "running"
    /\ fn = "a5_cell_area"
    /\ Step(A5CellAreaLambda(args[row][1], offset, result_size))

A5GetNumCellsFun ==
    /\ pc = "running"
    /\ fn = "a5_get_num_cells"
    /\ Step(A5GetNumCellsLambda(args[row][1], offset, result_size))

A5LonLatToCellFun ==
    /\ pc = "running"
    /\ fn = "a5_lonlat_to_cell"
    /\ Step(A5LonLatToCellLambda(args[row][1], args[row][2], args[row][3],
                                 offset, result_size))

A5CellToLonLatFun ==
    /\ pc = "running"
    /\ fn = "a5_cell_to_lonlat"
    /\ Step(A5CellToLonLatRow(args[row][1], validity[row], offset, result_size))

A5GetRes0CellsFun ==
    /\ pc = "running"
    /\ fn = "a5_get_res0_cells"
    /\ Step(A5GetRes0CellsValue(offset, result_size))

A5GetResolutionFun ==
    /\ pc = "running"
    /\ fn = "a5_get_resolution"
    /\ Step(A5GetResolutionLambda(args[row][1], offset, result_size))

A5CellToParentFun ==
    /\ pc = "running"
    /\ fn = "a5_cell_to_parent"
    /\ Step(A5CellToParentLambda(args[row][1], args[row][2], offset, result_size))

A5CellToChildrenFun ==
    /\ pc = "running"
    /\ fn = "a5_cell_to_children"
    /\ \/ /\ ColumnCount = 2
          /\ Step(A5CellToChildrenLambda2(args[row][1], args[row][2],
                                          offset, result_size))
       \/ /\ ColumnCount = 1
          /\ Step(A5CellToChildrenLambda1(args[row][1], offset, result_size))

A5CellToBoundaryFun ==
    /\ pc = "running"
    /\ fn = "a5_cell_to_boundary"
    /\ \E auto \in AutoSegments :
        \/ /\ ColumnCount = 1
           /\ Step(A5CellToBoundaryLambda1(args[row][1], auto, offset, result_size))
        \/ /\ ColumnCount = 2
           /\ Step(A5CellToBoundaryLambda2(args[row][1], args[row][2], auto,
                                           offset, result_size))
        \/ /\ ColumnCount = 3
           /\ Step(A5CellToBoundaryLambda3(args[row][1], args[row][2], args[row][3],
                                           auto, offset, result_size))

A5CompactFun ==
    /\ pc = "running"
    /\ fn = "a5_compact"
    /\ Step(A5CompactLambda(cell_list_data, args[row][1], offset, result_size))

A5UncompactFun ==
    /\ pc = "running"
    /\ fn = "a5_uncompact"
    /\ Step(A5UncompactLambda(cell_list_data, args[row][1], args[row][2],
                              offset, result_size))

A5AreaFun ==
    /\ pc = "running"
    /\ fn = "a5_area"
    /\ Step(A5AreaLambda(args[row][1], offset, result_size))

A5NumCellsFun ==
    /\ pc = "running"
    /\ fn = "a5_num_cells"
    /\ Step(A5NumCellsLambda(args[row][1], offset, result_size))

A5CellFun ==
    /\ pc = "running"
    /\ fn = "a5_cell"
    /\ Step(A5CellLambda(args[row][1], args[row][2], args[row][3], offset, result_size))

A5ParentFun ==
    /\ pc = "running"
    /\ fn = "a5_parent"
    /\ Step(A5ParentLambda(args[row][1], args[row][2], offset, result_size))

\* The call returns, or its exception reaches the host.
Finish ==
    /\ pc \in {"done", "failed"}
    /\ pc' = "idle"
    /\ fn' = "none"
    /\ args' = <<>>
    /\ validity' = <<>>
    /\ cell_list_data' = <<>>
    /\ row' = 1
    /\ result' = <<>>
    /\ child' = <<>>
    /\ offset' = 0
    /\ result_size' = 0
    /\ raised' = NoError
    /\ calls' = <<>>
    /\ obtained' = 0
    /\ released' = 0
    /\ events' = <<>>
    /\ UNCHANGED other

Next ==
    \/ Invoke
    \/ A5CellAreaFun
    \/ A5GetNumCellsFun
    \/ A5LonLatToCellFun
    \/ A5CellToLonLatFun
    \/ A5GetRes0CellsFun
    \/ A5GetResolutionFun
    \/ A5CellToParentFun
    \/ A5CellToChildrenFun
    \/ A5CellToBoundaryFun
    \/ A5CompactFun
    \/ A5UncompactFun
    \/ A5AreaFun
    \/ A5NumCellsFun
    \/ A5CellFun
    \/ A5ParentFun
    \/ Finish

Spec == Init /\ [][Next]_vars

-----------------------------------------------------------------------------
(* Two invocations at once *)

MaxConcurrentRows == 2

\* The wrappers that keep a running offset, each on a few rows.
ConcurrentOverloads ==
    {<<"a5_cell_to_children", 2>>, <<"a5_cell_to_children", 1>>,
     <<"a5_compact", 1>>, <<"a5_uncompact", 2>>}

ConcurrentRows(o) ==
    CASE o = <<"a5_cell_to_children", 2>> -> {<<<<0>>, 1>>, <<<<0, 1>>, 31>>}
      [] o = <<"a5_cell_to_children", 1>> -> {<<<<0, 1>>>>, <<ZeroCell>>}
      [] o = <<"a5_compact", 1>> ->
            {<<<<>>>>, <<<<<<0, 0, 3>>, <<0, 0, 1>>, <<0, 0, 0>>, <<0, 0, 2>>>>>>}
      [] o = <<"a5_uncompact", 2>> -> {<<<<<<0, 1>>>>, 2>>, <<<<ZeroCell>>, 2>>}

ConcurrentChunks(o) == UNION {[1..k -> ConcurrentRows(o)] : k \in 1..MaxConcurrentRows}

\* The thread that is not running calls a registered function on its own chunk
\* and result vector.
ConcurrentInvoke ==
    /\ pc = "idle"
    /\ \E o \in ConcurrentOverloads : \E chunk \in ConcurrentChunks(o) :
        /\ fn' = o[1]
        /\ args' = IF TakesList(o) THEN ListColumn(chunk) ELSE chunk
        /\ validity' \in Validities(o, chunk)
        /\ cell_list_data' = IF TakesList(o) THEN ListChild(chunk) ELSE <<>>
    /\ pc' = "running"
    /\ row' = 1
    /\ result' = <<>>
    /\ child' = <<>>
    /\ offset' = 0
    /\ result_size' = 0
    /\ raised' = NoError
    /\ calls' = <<>>
    /\ obtained' = 0
    /\ released' = 0
    /\ events' = <<>>
    /\ UNCHANGED other


\* Faulty variant: offset and result_size are one pair of variables for both
\* invocations (as if declared static).
Switch_SharedOffset ==
    /\ other' = Local
    /\ pc' = other.pc
    /\ fn' = other.fn
    /\ args' = other.args
    /\ validity' = other.validity
    /\ cell_list_data' = other.cell_list_data
    /\ row' = other.row
    /\ result' = other.result
    /\ child' = other.child
    /\ UNCHANGED <<offset, result_size>>
    /\ raised' = other.raised
    /\ calls' = other.calls
    /\ obtained' = other.obtained
    /\ released' = other.released
    /\ events' = other.events

\* The scheduler runs the other thread: between two rows either invocation may
\* take the next step.  Each keeps its own chunk, result vector and locals.
Switch ==
    /\ other' = Local
    /\ pc' = other.pc
    /\ fn' = other.fn
    /\ args' = other.args
    /\ validity' = other.validity
    /\ cell_list_data' = other.cell_list_data
    /\ row' = other.row
    /\ result' = other.result
    /\ child' = other.child
    /\ offset' = other.offset
    /\ result_size' = other.result_size
    /\ raised' = other.raised
    /\ calls' = other.calls
    /\ obtained' = other.obtained
    /\ released' = other.released
    /\ events' = other.events

ConcurrentNext ==
    \/ ConcurrentInvoke
    \/ A5CellToChildrenFun
    \/ A5CompactFun
    \/ A5UncompactFun
    \/ Finish
    \/ Switch

ConcurrentSpec == Init /\ [][ConcurrentNext]_vars

-----------------------------------------------------------------------------
(* What the host reads back *)

\* Row i of a LIST argument column, as the host laid it out.
ArgList(i) ==
    [k \in 1..args[i][1].length |-> cell_list_data[args[i][1].offset + k]]

\* Row i of the LIST result, as the host reads it from the entry and the child.
ResultList(i) ==
    [k \in 1..result[i].length |-> child[result[i].offset + k]]

Finished == 1..Len(result)

WholeList(l) == list_entry_t(0, Len(l))

-----------------------------------------------------------------------------
(* Hierarchy navigator *)

\* C1: for every valid cell c at resolution r < 30, every cell that the
\* one-argument a5_cell_to_children returns for c has a5_cell_to_parent(child, r)
\* succeed and equal c.
C1_ChildrenParentInverse ==
    (fn = "a5_cell_to_children" /\ ColumnCount = 1) =>
        \A i \in Finished :
            LET c == args[i][1]
                r == a5_get_resolution(c)
            IN  (IsValidCell(c) /\ r < MAX_RESOLUTION) =>
                    \A j \in 1..Len(ResultList(i)) :
                        LET up == A5CellToParentLambda(ResultList(i)[j], r, 0, 0)
                        IN  up.throw = NoError /\ up.value = c

\* A second row of immediate children has been returned for a cell at resolution 29.
C1_Witness ==
    /\ fn = "a5_cell_to_children"
    /\ ColumnCount = 1
    /\ Len(result) = 1
    /\ args[1][1] = Deep29
    /\ Len(ResultList(1)) = 4

\* C2: for every valid cell c and every r in 0..resolution_of(c),
\* a5_cell_to_parent(c, r) does not fail and returns a cell whose resolution is r.
C2_ParentResolution ==
    fn = "a5_cell_to_parent" =>
        /\ \A i \in Finished :
              LET c == args[i][1]
                  r == args[i][2]
              IN  (IsValidCell(c) /\ 0 <= r /\ r <= a5_get_resolution(c)) =>
                      A5GetResolutionLambda(result[i], 0, 0).value = r
        /\ pc = "failed" =>
              ~ (/\ IsValidCell(args[row][1])
                 /\ 0 <= args[row][2]
                 /\ args[row][2] <= a5_get_resolution(args[row][1]))

\* The parent at resolution 30 of a resolution-30 cell has been returned.
C2_Witness ==
    /\ fn = "a5_cell_to_parent"
    /\ Len(result) = 1
    /\ args[1] = <<Append(Deep29, 2), MAX_RESOLUTION>>
    /\ result[1] = Append(Deep29, 2)

\* C3: for every valid cell c and r2 <= r1 <= resolution_of(c), the parent at r2
\* of the parent at r1 is the parent of c at r2.
C3_ParentComposes ==
    fn = "a5_cell_to_parent" =>
        \A i \in Finished :
            LET c == args[i][1]
                r1 == args[i][2]
            IN  (IsValidCell(c) /\ 0 <= r1 /\ r1 <= a5_get_resolution(c)) =>
                    \A r2 \in 0..r1 :
                        LET twice == A5CellToParentLambda(result[i], r2, 0, 0)
                            once == A5CellToParentLambda(c, r2, 0, 0)
                        IN  /\ twice.throw = NoError
                            /\ once.throw = NoError
                            /\ twice.value = once.value

\* The proper parent at resolution 29 of a resolution-30 cell has been returned.
C3_Witness ==
    /\ fn = "a5_cell_to_parent"
    /\ Len(result) = 1
    /\ args[1] = <<Append(Deep29, 1), 29>>
    /\ result[1] = Deep29

-----------------------------------------------------------------------------
(* Set reducer *)

\* C4: compacting the list a5_compact returned gives that list again.
C4_CompactIdempotent ==
    fn = "a5_compact" =>
        \A i \in Finished :
            LET again == A5CompactLambda(ResultList(i), WholeList(ResultList(i)), 0, 0)
            IN  again.throw = NoError /\ again.push = ResultList(i)

\* A list of eight cells has been compacted, through two levels, to one base cell.
C4_Witness ==
    /\ fn = "a5_compact"
    /\ Len(result) = 1
    /\ Len(ArgList(1)) = 8
    /\ ResultList(1) = <<<<0>>>>

\* C5: for every list S of valid cells, all at resolution <= r, uncompacting the
\* compacted S to r yields the same set of cells as uncompacting S to r.
C5_CompactUncompactRoundTrip ==
    fn = "a5_uncompact" =>
        \A i \in Finished :
            LET S == ArgList(i)
                r == args[i][2]
                packed == A5CompactLambda(S, WholeList(S), 0, 0)
                expanded == A5UncompactLambda(packed.push, WholeList(packed.push), r, 0, 0)
            IN  ((\A k \in 1..Len(S) : IsValidCell(S[k]) /\ a5_get_resolution(S[k]) <= r)
                 /\ 0 <= r /\ r <= MAX_RESOLUTION) =>
                    /\ packed.throw = NoError
                    /\ expanded.throw = NoError
                    /\ Range(expanded.push) = Range(ResultList(i))

\* Four complete siblings and one more cell have been uncompacted one level
\* below the siblings.
C5_Witness ==
    /\ fn = "a5_uncompact"
    /\ Len(result) = 1
    /\ args[1][2] = 3
    /\ Range(ArgList(1)) = {<<0, 0, k>> : k \in 0..3} \cup {<<0, 2>>}
    /\ Len(ResultList(1)) = 32

SameParent(l) == \A k \in 1..Len(l) : Len(l[k]) >= 2 /\ ParentOf(l[k]) = ParentOf(l[1])

\* C6: a5_compact of all the children of one parent returns exactly that parent,
\* and a5_compact of a proper part of one sibling group returns exactly the
\* cells it was given.
C6_CompactSiblingGroups ==
    fn = "a5_compact" =>
        \A i \in Finished :
            LET l == ArgList(i)
                group == Range(ImmediateChildren(ParentOf(l[1])))
            IN  (l # <<>> /\ (\A k \in 1..Len(l) : IsValidCell(l[k])) /\ SameParent(l)) =>
                    IF Range(l) = group
                    THEN ResultList(i) = <<ParentOf(l[1])>>
                    ELSE /\ Range(ResultList(i)) = Range(l)
                         /\ Len(ResultList(i)) = Cardinality(Range(l))

\* The four children of one cell have been compacted to it.
C6_Witness ==
    /\ fn = "a5_compact"
    /\ Len(result) = 1
    /\ ArgList(1) = <<<<0, 0, 3>>, <<0, 0, 2>>, <<0, 0, 1>>, <<0, 0, 0>>>>
    /\ ResultList(1) = <<<<0, 0>>>>

\* Three of four siblings have been compacted and came back.
C6_WitnessIncomplete ==
    /\ fn = "a5_compact"
    /\ Len(result) = 1
    /\ ArgList(1) = <<<<0, 0, 0>>, <<0, 0, 1>>, <<0, 0, 3>>>>
    /\ Range(ResultList(1)) = Range(ArgList(1))

C8_UncompactNeverAscends ==
    fn = "a5_uncompact" =>
        /\ \A i \in Finished :
              LET l == ArgList(i)
                  t == args[i][2]
                  out == ResultList(i)
              IN  /\ \A k \in 1..Len(l) : a5_get_resolution(l[k]) <= t
                  /\ \A k \in 1..Len(out) : a5_get_resolution(out[k]) = t
                  /\ \A k \in 1..Len(l) : a5_get_resolution(l[k]) = t => l[k] \in Range(out)
                  /\ (\A k \in 1..Len(l) : a5_get_resolution(l[k]) = t) => out = l
        /\ (pc = "running" /\ \E k \in 1..Len(ArgList(row)) :
                                 a5_get_resolution(ArgList(row)[k]) > args[row][2])
              => ~ ENABLED (A5UncompactFun /\ raised' = NoError)

\* A list of cells all at the target resolution has come back as it was.
C8_Witness ==
    /\ fn = "a5_uncompact"
    /\ Len(result) = 1
    /\ args[1][2] = 2
    /\ ArgList(1) = <<<<0, 0, 0>>, <<0, 0, 1>>, <<0, 0, 2>>, <<0, 0, 3>>>>
    /\ ResultList(1) = ArgList(1)

\* A row with a cell finer than the target has raised.
C8_WitnessFiner ==
    /\ fn = "a5_uncompact"
    /\ pc = "failed"
    /\ row = 1
    /\ args[1][2] = 1
    /\ <<0, 0, 1>> \in Range(ArgList(1))
    /\ result = <<>>

-----------------------------------------------------------------------------
(* Boundary generator *)

\* C9: for every valid non-zero cell and explicit segments s >= 1 the boundary
\* has 5*s + 1 vertices, the first equal to the last, when closed_ring is true,
\* and exactly 5*s vertices when closed_ring is false.
C9_BoundaryVertexCount ==
    (fn = "a5_cell_to_boundary" /\ ColumnCount = 3) =>
        \A i \in Finished :
            LET c == args[i][1]
                closed_ring == args[i][2]
                s == args[i][3]
                ring == ResultList(i)
            IN  (IsValidCell(c) /\ s >= 1) =>
                    IF closed_ring
                    THEN Len(ring) = 5 * s + 1 /\ ring[1] = ring[Len(ring)]
                    ELSE Len(ring) = 5 * s

\* A closed ring with the largest explicit segment count has been returned.
C9_Witness ==
    /\ fn = "a5_cell_to_boundary"
    /\ ColumnCount = 3
    /\ Len(result) = 1
    /\ args[1] = <<<<11, 4, 3>>, TRUE, MaxSegments>>
    /\ Len(ResultList(1)) = 5 * MaxSegments + 1

\* An open ring with one segment per edge has been returned.
C9_WitnessOpen ==
    /\ fn = "a5_cell_to_boundary"
    /\ ColumnCount = 3
    /\ Len(result) = 1
    /\ args[1] = <<Deep29, FALSE, 1>>
    /\ Len(ResultList(1)) = 5

\* C10: in every overload of a5_cell_to_boundary a row whose cell is 0 gets the
\* empty list and never raises, the core is never called with cell 0 (it is
\* called once for each other row reached), and the rows after it are processed.
C10_ZeroCellBoundary ==
    fn = "a5_cell_to_boundary" =>
        /\ \A i \in Finished :
              args[i][1] = ZeroCell => result[i] = list_entry_t(0, 0)
        /\ \A k \in 1..Len(calls) : calls[k].with[1] # ZeroCell
        /\ Len(calls) = Cardinality({i \in Finished : args[i][1] # ZeroCell})
                            + (IF pc = "failed" THEN 1 ELSE 0)
        /\ pc = "failed" => args[row][1] # ZeroCell
        /\ (pc = "running" /\ args[row][1] = ZeroCell) =>
              ENABLED (A5CellToBoundaryFun /\ raised' = NoError /\ calls' = calls)
        /\ (pc # "failed" /\ Len(result) < Len(args)) => pc = "running"

\* A batch whose first row is cell 0 has been processed to its end, the second
\* row getting its ring.
C10_Witness ==
    /\ fn = "a5_cell_to_boundary"
    /\ pc = "done"
    /\ Len(args) = 2
    /\ args[1][1] = ZeroCell
    /\ result[1] = list_entry_t(0, 0)
    /\ args[2][1] = <<0, 1>>
    /\ result[2].length > 0
    /\ Len(calls) = 1


\* The last row handed to the lambda: the failing one, or the last finished one.
LastRow == IF pc = "failed" THEN row ELSE Len(result)

\* The closed_ring and segments a row stands for once the defaults are filled in.
FilledIn(a) ==
    CellBoundaryOptions(IF Len(a) >= 2 THEN a[2] ELSE TRUE,
                        IF Len(a) = 3 /\ a[3] > 0 THEN a[3] ELSE -1)

\* C11: the three a5_cell_to_boundary overloads are the one general operation
\* with defaults filled in: a row without closed_ring is computed with
\* closed_ring = true, a row without segments or with segments <= 0 is computed
\* with segments = -1 ("auto"), and these are the options the core is called
\* with; the row's list (or its error) is the general operation's.
C11_BoundaryOverloadsDelegate ==
    fn = "a5_cell_to_boundary" =>
        /\ \A i \in Finished :
              LET o == FilledIn(args[i])
              IN  \E auto \in AutoSegments :
                      LET general == compute_boundary(args[i][1], o.closed_ring,
                                                      o.segments, auto, 0, 0)
                      IN  /\ general.throw = NoError
                          /\ general.push = ResultList(i)
        /\ (LastRow >= 1 /\ args[LastRow][1] # ZeroCell) =>
              /\ Len(calls) >= 1
              /\ calls[Len(calls)] =
                    CoreCall("a5_cell_to_boundary", <<args[LastRow][1], FilledIn(args[LastRow])>>)
        /\ pc = "failed" =>
              raised = compute_boundary(args[row][1], FilledIn(args[row]).closed_ring,
                                        FilledIn(args[row]).segments, 1, 0, 0).throw

\* The three-argument overload has been called with segments = 0 and returned
\* the open ring of the core's own segment count.
C11_Witness ==
    /\ fn = "a5_cell_to_boundary"
    /\ ColumnCount = 3
    /\ Len(result) = 1
    /\ args[1] = <<<<0, 1>>, FALSE, 0>>
    /\ Len(ResultList(1)) = 5 * MaxAutoSegments
    /\ calls[1].with[2].segments = -1

\* The one-argument overload has returned a closed ring.
C11_WitnessOneArgument ==
    /\ fn = "a5_cell_to_boundary"
    /\ ColumnCount = 1
    /\ Len(result) = 1
    /\ args[1] = <<Deep29>>
    /\ Len(ResultList(1)) = 5 * MaxAutoSegments + 1
    /\ calls[1].with[2] = CellBoundaryOptions(TRUE, -1)


-----------------------------------------------------------------------------
(* Geodesic projector *)

\* The row is a coordinate in range with a resolution in 0..30.
ValidPointRow(a) == InRange(a[1], a[2]) /\ 0 <= a[3] /\ a[3] <= MAX_RESOLUTION

\* C12: for every longitude in [-180, 180], latitude in [-90, 90] and
\* resolution r in 0..30, a5_lonlat_to_cell does not fail and returns a valid
\* cell whose resolution is r.
C12_PointResolution ==
    fn = "a5_lonlat_to_cell" =>
        /\ \A i \in Finished :
              ValidPointRow(args[i]) =>
                  /\ IsValidCell(result[i])
                  /\ A5GetResolutionLambda(result[i], 0, 0).value = args[i][3]
        /\ pc = "failed" => ~ValidPointRow(args[row])

\* The corner (180, 90) of the coordinate range has been indexed at resolution 30.
C12_Witness ==
    /\ fn = "a5_lonlat_to_cell"
    /\ Len(result) = 1
    /\ args[1] = <<LonDegrees(180), LatDegrees(90), MAX_RESOLUTION>>
    /\ A5GetResolutionLambda(result[1], 0, 0).value = MAX_RESOLUTION

\* C13: for every coordinate in range and resolutions r1 <= r2, the cell of the
\* point at r1 is the parent at r1 of the cell of the point at r2.
C13_PointParentConsistent ==
    fn = "a5_lonlat_to_cell" =>
        \A i \in Finished :
            ValidPointRow(args[i]) =>
                \A r1 \in 0..args[i][3] :
                    LET coarse == A5LonLatToCellLambda(args[i][1], args[i][2], r1, 0, 0)
                        up == A5CellToParentLambda(result[i], r1, 0, 0)
                    IN  /\ coarse.throw = NoError
                        /\ up.throw = NoError
                        /\ coarse.value = up.value

\* The point (0, 0) has been indexed at resolution 15, and its cell at
\* resolution 10 is the parent at 10 of that cell.
C13_Witness ==
    /\ fn = "a5_lonlat_to_cell"
    /\ Len(result) = 1
    /\ args[1] = <<LonDegrees(0), LatDegrees(0), 15>>
    /\ a5_get_resolution(result[1]) = 15
    /\ A5LonLatToCellLambda(LonDegrees(0), LatDegrees(0), 10, 0, 0).value
           = A5CellToParentLambda(result[1], 10, 0, 0).value

-----------------------------------------------------------------------------
(* Base cells *)

\* C16: a5_get_res0_cells returns exactly twelve cells, pairwise distinct, none
\* of them 0, each of resolution 0, and as many as a5_get_num_cells(0) counts.
C16_TwelveBaseCells ==
    (fn = "a5_get_res0_cells" /\ pc = "done") =>
        LET cells == ResultList(1)
        IN  /\ Len(cells) = 12
            /\ Cardinality(Range(cells)) = Len(cells)
            /\ \A k \in 1..Len(cells) :
                  /\ cells[k] # ZeroCell
                  /\ A5GetResolutionLambda(cells[k], 0, 0).value = 0
            /\ A5GetNumCellsLambda(0, 0, 0).value = CellCount(Len(cells), 0)

\* The list of base cells has been returned and its buffer given back.
C16_Witness ==
    /\ fn = "a5_get_res0_cells"
    /\ pc = "done"
    /\ result = <<list_entry_t(0, NumBaseCells)>>
    /\ Len(child) = NumBaseCells
    /\ released = 1

-----------------------------------------------------------------------------
(* Resolution validation *)

\* The wrappers that validate a resolution argument, which is their last argument.
ValidatesResolution ==
    \/ fn \in {"a5_cell_area", "a5_get_num_cells", "a5_lonlat_to_cell",
               "a5_cell_to_parent", "a5_uncompact"}
    \/ fn = "a5_cell_to_children" /\ ColumnCount = 2

ResolutionArgument(a) == a[Len(a)]

OutOfBounds(r) == r < 0 \/ r > MAX_RESOLUTION

\* C17: a5_cell_area, a5_get_num_cells, a5_lonlat_to_cell, a5_cell_to_parent,
\* the two-argument a5_cell_to_children and a5_uncompact raise
\* "<function>: Resolution must be between 0 and 30" without calling the core
\* whenever the resolution argument is < 0 or > 30 (no such row ever finishes),
\* and call the core with the unchanged value whenever it is in 0..30.
C17_StrictResolutionValidation ==
    (ValidatesResolution /\ pc # "idle") =>
        /\ \A i \in Finished :
              /\ ~OutOfBounds(ResolutionArgument(args[i]))
              /\ Len(calls) >= i
              /\ ResolutionArgument(calls[i].with) = ResolutionArgument(args[i])
        /\ pc = "failed" =>
              IF OutOfBounds(ResolutionArgument(args[row]))
              THEN /\ raised = fn \o ": Resolution must be between 0 and 30"
                   /\ Len(calls) = Len(result)
              ELSE /\ Len(calls) = Len(result) + 1
                   /\ ResolutionArgument(calls[Len(calls)].with)
                          = ResolutionArgument(args[row])
        /\ (pc = "running" /\ OutOfBounds(ResolutionArgument(args[row]))) =>
              ~ ENABLED (Next /\ raised' = NoError)

\* a5_uncompact has refused the resolution 31 without calling the core.
C17_Witness ==
    /\ fn = "a5_uncompact"
    /\ pc = "failed"
    /\ args[1][2] = 31
    /\ raised = "a5_uncompact: Resolution must be between 0 and 30"
    /\ calls = <<>>

\* a5_cell_area has called the core with the resolution 30 it was given.
C17_WitnessInBounds ==
    /\ fn = "a5_cell_area"
    /\ Len(result) = 1
    /\ args[1] = <<MAX_RESOLUTION>>
    /\ calls = <<CoreCall("a5_cell_area", <<MAX_RESOLUTION>>)>>


-----------------------------------------------------------------------------
(* Directionally inconsistent resolutions *)

\* C19: for every valid cell c and every t in 0..30 greater than the resolution
\* of c, a5_cell_to_parent(c, t) raises and returns no cell: no such row ever
\* finishes, and the row's only step is the raising one.
C19_ParentAboveCellFails ==
    fn = "a5_cell_to_parent" =>
        /\ \A i \in Finished :
              (IsValidCell(args[i][1]) /\ ~OutOfBounds(args[i][2])) =>
                  args[i][2] <= a5_get_resolution(args[i][1])
        /\ (/\ pc = "running"
            /\ IsValidCell(args[row][1])
            /\ ~OutOfBounds(args[row][2])
            /\ args[row][2] > a5_get_resolution(args[row][1])) =>
              /\ ENABLED (A5CellToParentFun /\ raised' # NoError /\ result' = result)
              /\ ~ ENABLED (A5CellToParentFun /\ raised' = NoError)

\* The parent at resolution 2 of a resolution-1 cell has been refused.
C19_Witness ==
    /\ fn = "a5_cell_to_parent"
    /\ pc = "failed"
    /\ args[1] = <<<<0, 1>>, 2>>
    /\ raised # NoError
    /\ result = <<>>
    /\ Len(calls) = 1

\* C20: for every valid cell c and every explicit target t in 0..30 less than
\* the resolution of c, the two-argument a5_cell_to_children(c, t) raises and
\* returns no list: no such row ever finishes, and nothing is appended for it.
C20_ChildrenBelowCellFails ==
    (fn = "a5_cell_to_children" /\ ColumnCount = 2) =>
        /\ \A i \in Finished :
              (IsValidCell(args[i][1]) /\ ~OutOfBounds(args[i][2])) =>
                  args[i][2] >= a5_get_resolution(args[i][1])
        /\ (/\ pc = "running"
            /\ IsValidCell(args[row][1])
            /\ ~OutOfBounds(args[row][2])
            /\ args[row][2] < a5_get_resolution(args[row][1])) =>
              /\ ENABLED (A5CellToChildrenFun /\ raised' # NoError
                            /\ result' = result /\ child' = child)
              /\ ~ ENABLED (A5CellToChildrenFun /\ raised' = NoError)

\* The children at resolution 1 of a resolution-2 cell have been refused.
C20_Witness ==
    /\ fn = "a5_cell_to_children"
    /\ ColumnCount = 2
    /\ pc = "failed"
    /\ args[1] = <<<<11, 4, 3>>, 1>>
    /\ raised # NoError
    /\ result = <<>>
    /\ child = <<>>


-----------------------------------------------------------------------------
(* Resolution validation in a5_extension.cpp *)

EarlierValidatesResolution == fn \in {"a5_area", "a5_num_cells", "a5_cell", "a5_parent"}

\* C18, as stated: a5_area, a5_num_cells, a5_cell and a5_parent refuse every
\* resolution argument outside 0..30, the negative ones too, with
\* "Resolution must be between 0 and 30": no such row finishes, the failing row
\* carries that message, and no core call carries such a resolution.
C18_EarlierRejectsOutOfBounds ==
    (EarlierValidatesResolution /\ pc # "idle") =>
        /\ \A i \in Finished : ~OutOfBounds(ResolutionArgument(args[i]))
        /\ (pc = "failed" /\ OutOfBounds(ResolutionArgument(args[row]))) =>
              raised = "Resolution must be between 0 and 30"
        /\ \A k \in 1..Len(calls) : ~OutOfBounds(ResolutionArgument(calls[k].with))

\* What does hold of a5_extension.cpp: a resolution above 30 is refused with
\* that message before the core is called; a resolution below 0 passes the
\* check and reaches the core unchanged.
C18_EarlierRejectsAbove30Only ==
    (EarlierValidatesResolution /\ pc # "idle") =>
        /\ \A i \in Finished :
              /\ ResolutionArgument(args[i]) <= MAX_RESOLUTION
              /\ ResolutionArgument(calls[i].with) = ResolutionArgument(args[i])
        /\ (pc = "failed" /\ ResolutionArgument(args[row]) > MAX_RESOLUTION) =>
              /\ raised = "Resolution must be between 0 and 30"
              /\ Len(calls) = Len(result)
        /\ (pc = "failed" /\ ResolutionArgument(args[row]) <= MAX_RESOLUTION) =>
              /\ Len(calls) = Len(result) + 1
              /\ calls[Len(calls)].with = args[row]

\* a5_area has been given the resolution -1, has called the core with it and
\* has returned what the core gave.
C18_Witness ==
    /\ fn = "a5_area"
    /\ pc = "done"
    /\ args = <<<<-1>>>>
    /\ calls = <<CoreCall("a5_cell_area", <<-1>>)>>
    /\ raised = NoError
    /\ Len(result) = 1

-----------------------------------------------------------------------------
(* Children without a target resolution *)

\* C21: the one-argument a5_cell_to_children(c) returns the immediate
\* next-level children: for every valid cell c at resolution r < 30 the row
\* finishes, its list is the list the two-argument a5_cell_to_children(c, r + 1)
\* returns, and every cell of it has resolution r + 1.
C21_OneArgumentIsNextLevel ==
    (fn = "a5_cell_to_children" /\ ColumnCount = 1) =>
        /\ \A i \in Finished :
              LET c == args[i][1]
                  r == a5_get_resolution(c)
                  two == A5CellToChildrenLambda2(c, r + 1, 0, 0)
              IN  (IsValidCell(c) /\ r < MAX_RESOLUTION) =>
                      /\ two.throw = NoError
                      /\ ResultList(i) = two.push
                      /\ \A k \in 1..Len(ResultList(i)) :
                            a5_get_resolution(ResultList(i)[k]) = r + 1
        /\ (/\ pc = "running"
            /\ IsValidCell(args[row][1])
            /\ a5_get_resolution(args[row][1]) < MAX_RESOLUTION) =>
              ~ ENABLED (A5CellToChildrenFun /\ raised' # NoError)

\* The five children of base cell 0 and then the four children of one of them
\* have been returned by the one-argument overload.
C21_Witness ==
    /\ fn = "a5_cell_to_children"
    /\ ColumnCount = 1
    /\ pc = "done"
    /\ args = <<<<<<0>>>>, <<<<0, 1>>>>>>
    /\ Len(ResultList(1)) = 5
    /\ Len(ResultList(2)) = 4
    /\ result[2].offset = 5

-----------------------------------------------------------------------------
(* How many children *)

RECURSIVE FourToThe(_)
FourToThe(n) == IF n <= 0 THEN 1 ELSE 4 * FourToThe(n - 1)

\* The number of resolution-t descendants of a resolution-r cell, r <= t: the
\* product of the branching factors of the levels r + 1 .. t.
RECURSIVE BranchingProduct(_, _)
BranchingProduct(r, t) ==
    IF r >= t THEN 1 ELSE Branching(r + 1) * BranchingProduct(r + 1, t)

RECURSIVE SumOf(_)
SumOf(s) == IF s = <<>> THEN 0 ELSE s[1] + SumOf(SubSeq(s, 2, Len(s)))

PairwiseDistinct(s) == \A i, j \in 1..Len(s) : i # j => s[i] # s[j]

\* A finished a5_cell_to_children(c, t) row with c valid at r <= t <= 30.
ChildrenRow(i) ==
    /\ IsValidCell(args[i][1])
    /\ a5_get_resolution(args[i][1]) <= args[i][2]
    /\ args[i][2] <= MAX_RESOLUTION

\* A finished a5_uncompact(cells, t) row, every cell valid and not below t.
UncompactRow(i) ==
    /\ \A k \in 1..Len(ArgList(i)) :
          IsValidCell(ArgList(i)[k]) /\ a5_get_resolution(ArgList(i)[k]) <= args[i][2]
    /\ args[i][2] \in 0..MAX_RESOLUTION

-----------------------------------------------------------------------------
(* Coordinates out of range *)

\* C23: a5_lonlat_to_cell fails and returns no cell whenever the longitude is
\* outside [-180, 180] or the latitude outside [-90, 90]: no such row ever
\* finishes, the row raises and nothing else, and the coordinates reach the
\* core as they were given, neither clamped nor wrapped.
C23_OutOfRangeCoordinatesFail ==
    fn = "a5_lonlat_to_cell" =>
        /\ \A i \in Finished : InRange(args[i][1], args[i][2])
        /\ \A k \in 1..Len(calls) :
              \E i \in 1..LastRow : calls[k].with = args[i]
        /\ (pc = "running" /\ ~InRange(args[row][1], args[row][2])) =>
              /\ ENABLED (A5LonLatToCellFun /\ raised' # NoError /\ result' = result)
              /\ ~ ENABLED (A5LonLatToCellFun /\ raised' = NoError)

\* Longitude 181 at resolution 1 has been refused by the core, after a row in
\* range was indexed.
C23_Witness ==
    /\ fn = "a5_lonlat_to_cell"
    /\ pc = "failed"
    /\ row = 2
    /\ args[2] = <<LonDegrees(181), LatDegrees(0), 1>>
    /\ Len(result) = 1
    /\ Len(calls) = 2
    /\ calls[2].with = args[2]
    /\ raised = "a5_lonlat_to_cell: coordinate out of range"

-----------------------------------------------------------------------------
(* The core's error indicator *)

ChecksCoreError ==
    fn \in {"a5_lonlat_to_cell", "a5_cell_to_parent", "a5_cell_to_lonlat",
            "a5_cell_to_children", "a5_cell_to_boundary", "a5_compact", "a5_uncompact"}

\* The error indicator the core returned for a recorded call.
CoreError(call) ==
    LET w == call.with
    IN  CASE call.routine = "a5_lon_lat_to_cell" -> a5_lon_lat_to_cell(w[1], w[2], w[3]).error
          [] call.routine = "a5_cell_to_parent" -> a5_cell_to_parent(w[1], w[2]).error
          [] call.routine = "a5_cell_to_lon_lat" -> a5_cell_to_lon_lat(w[1]).error
          [] call.routine = "a5_cell_to_children" -> a5_cell_to_children(w[1], w[2]).error
          [] call.routine = "a5_cell_to_boundary" -> a5_cell_to_boundary(w[1], w[2], 1).error
          [] call.routine = "a5_compact" -> a5_compact(w[1]).error
          [] call.routine = "a5_uncompact" -> a5_uncompact(w[1], w[2]).error
          [] OTHER -> NoError

\* The row's resolution argument, where the wrapper validates one, is in bounds.
RowPassesValidation(a) ==
    (fn \in {"a5_lonlat_to_cell", "a5_cell_to_parent", "a5_uncompact"}
        \/ (fn = "a5_cell_to_children" /\ ColumnCount = 2))
      => ~OutOfBounds(ResolutionArgument(a))

\* C24: whenever the core returns a non-null error indicator for a row of
\* a5_lonlat_to_cell, a5_cell_to_parent, a5_cell_to_lonlat, a5_cell_to_children,
\* a5_cell_to_boundary, a5_compact or a5_uncompact, the call fails there with
\* the function's name and the core's message and the row gets no result; and
\* a row raises only on a failed resolution check or a non-null indicator.
C24_CoreErrorRaises ==
    (ChecksCoreError /\ pc # "idle") =>
        /\ \A k \in 1..Len(calls) :
              CoreError(calls[k]) # NoError =>
                  /\ k = Len(calls)
                  /\ pc = "failed"
                  /\ raised = fn \o ": " \o CoreError(calls[k])
        /\ pc = "failed" =>
              /\ Len(result) = row - 1
              /\ RowPassesValidation(args[row]) =>
                    /\ Len(calls) > 0
                    /\ CoreError(calls[Len(calls)]) # NoError
        /\ pc = "done" => Len(result) = Len(args)

\* a5_cell_to_children has failed on its second row with the core's message for a
\* malformed identifier, after the first row's list was returned.
C24_Witness ==
    /\ fn = "a5_cell_to_children"
    /\ ColumnCount = 1
    /\ pc = "failed"
    /\ row = 2
    /\ args[2] = <<ZeroCell>>
    /\ Len(result) = 1
    /\ raised = "a5_cell_to_children: invalid cell"

\* a5_compact has failed with the core's message.
C24_WitnessCompact ==
    /\ fn = "a5_compact"
    /\ pc = "failed"
    /\ raised = "a5_compact: invalid cell"
    /\ Len(result) = row - 1

-----------------------------------------------------------------------------
(* Buffers obtained from the core *)

ReturnsArray ==
    fn \in {"a5_cell_to_children", "a5_cell_to_boundary", "a5_compact",
            "a5_uncompact", "a5_get_res0_cells"}

\* The buffers held after the first k events: obtained and not yet released.
Held(k) ==
    Count(SubSeq(events, 1, k), "obtain") - Count(SubSeq(events, 1, k), "release")

\* The row is handed to the core: it is not the cell-0 boundary shortcut and its
\* resolution argument, if it has one, is in bounds.
ReachesCore(a) ==
    /\ ~(fn = "a5_cell_to_boundary" /\ a[1] = ZeroCell)
    /\ RowPassesValidation(a)

\* C25: every array buffer obtained from the core by a5_cell_to_children,
\* a5_cell_to_boundary, a5_compact, a5_uncompact and a5_get_res0_cells is
\* released exactly once on every path: one buffer is obtained per core call,
\* at most one is held at any time, none is released that is not held, none is
\* held once the row is over, whether it raised, was empty or was not; the
\* cell-0 boundary row obtains and releases none.
C25_BuffersReleasedOnce ==
    (ReturnsArray /\ pc # "idle") =>
        /\ obtained = Len(calls)
        /\ released = obtained
        /\ Count(events, "obtain") = obtained
        /\ Count(events, "release") = released
        /\ \A k \in 0..Len(events) : Held(k) \in {0, 1}
        /\ Len(calls) = Cardinality({i \in 1..LastRow : ReachesCore(args[i])})

\* a5_compact has raised on its second row: two buffers obtained and two
\* released, the second on the error path.
C25_Witness ==
    /\ fn = "a5_compact"
    /\ pc = "failed"
    /\ row = 2
    /\ Len(result) = 1
    /\ obtained = 2
    /\ released = 2
    /\ SubSeq(events, Len(events) - 2, Len(events)) = ArrayErrorEvents

\* An empty result's buffer has been released.
C25_WitnessEmpty ==
    /\ fn = "a5_compact"
    /\ pc = "done"
    /\ events = ArrayEmptyEvents
    /\ result = <<list_entry_t(0, 0)>>

\* The cell-0 boundary row took no buffer; the row after it took and released one.
C25_WitnessZeroCell ==
    /\ fn = "a5_cell_to_boundary"
    /\ pc = "done"
    /\ Len(args) = 2
    /\ args[1][1] = ZeroCell
    /\ args[2][1] = <<0>>
    /\ obtained = 1
    /\ released = 1
    /\ Len(calls) = 1

-----------------------------------------------------------------------------
(* NULL rows of a5_cell_to_lonlat *)

\* The rows among the first n whose input cell is not NULL, in order.
RECURSIVE NonNullRows(_)
NonNullRows(n) ==
    IF n = 0 THEN <<>>
    ELSE IF validity[n] THEN Append(NonNullRows(n - 1), n) ELSE NonNullRows(n - 1)

\* C27: in a5_cell_to_lonlat a row whose input cell is NULL yields a NULL row,
\* never raises, and the core is not invoked for it; every non-NULL row i that
\* finishes holds [longitude, latitude] of the core's result for row i's own
\* cell, longitude in element 0 and latitude in element 1; the core is called
\* once per non-NULL row, in row order.
C27_NullRowsPropagate ==
    fn = "a5_cell_to_lonlat" =>
        /\ \A i \in Finished :
              IF validity[i]
              THEN LET res == a5_cell_to_lon_lat(args[i][1])
                   IN  /\ res.error = NoError
                       /\ result[i] # NullRow
                       /\ result[i][1] = res.longitude
                       /\ result[i][2] = res.latitude
              ELSE result[i] = NullRow
        /\ Len(calls) = Len(NonNullRows(LastRow))
        /\ \A k \in 1..Len(calls) :
              calls[k] = CoreCall("a5_cell_to_lon_lat", <<args[NonNullRows(LastRow)[k]][1]>>)
        /\ (pc = "running" /\ ~validity[row]) =>
              ~ ENABLED (A5CellToLonLatFun /\ (raised' # NoError \/ calls' # calls))

\* A NULL row holding a malformed identifier has yielded NULL without a core
\* call, and the row after it the centre of its own cell.
C27_Witness ==
    /\ fn = "a5_cell_to_lonlat"
    /\ pc = "done"
    /\ Len(args) = 2
    /\ validity = <<FALSE, TRUE>>
    /\ args[1] = <<ZeroCell>>
    /\ args[2] = <<<<0, 1>>>>
    /\ result[1] = NullRow
    /\ result[2] = <<a5_cell_to_lon_lat(<<0, 1>>).longitude,
                     a5_cell_to_lon_lat(<<0, 1>>).latitude>>
    /\ Len(calls) = 1

-----------------------------------------------------------------------------
(* List offsets *)

ReturnsListPerRow ==
    fn \in {"a5_cell_to_children", "a5_cell_to_boundary", "a5_compact", "a5_uncompact"}

\* The lengths of the entries of the rows before row i, added up.
RECURSIVE LengthsBefore(_)
LengthsBefore(i) == IF i <= 1 THEN 0 ELSE LengthsBefore(i - 1) + result[i - 1].length

\* The lists the core can have returned for row i (one, but for a boundary
\* whose number of segments the core picks).
CoreLists(i) ==
    CASE fn = "a5_cell_to_children" ->
            {a5_cell_to_children(args[i][1],
                                 IF ColumnCount = 2 THEN args[i][2] ELSE -1).data}
      [] fn = "a5_compact" -> {a5_compact(ArgList(i)).data}
      [] fn = "a5_uncompact" -> {a5_uncompact(ArgList(i), args[i][2]).data}
      [] fn = "a5_cell_to_boundary" ->
            IF args[i][1] = ZeroCell THEN {<<>>}
            ELSE {[k \in 1..Len(b) |-> <<b[k].lon, b[k].lat>>] :
                     b \in {a5_cell_to_boundary(args[i][1], FilledIn(args[i]), auto).data :
                               auto \in AutoSegments}}

\* C28: over any sequence of rows of a5_cell_to_children, a5_cell_to_boundary,
\* a5_compact and a5_uncompact the running offset is the number of elements
\* appended so far; a non-empty row's entry is {the lengths of all earlier rows
\* added up, its own length} and an empty row's entry is {0, 0}; so the ranges
\* of the non-empty rows lie back to back, and each holds the elements the core
\* returned for that row, in order.
C28_OffsetsConsistent ==
    (ReturnsListPerRow /\ pc # "idle") =>
        /\ offset = Len(child)
        /\ offset = LengthsBefore(Len(result) + 1)
        /\ \A i \in Finished :
              IF result[i].length = 0
              THEN result[i] = list_entry_t(0, 0)
              ELSE result[i].offset = LengthsBefore(i)
        /\ \A i \in Finished : ResultList(i) \in CoreLists(i)

\* An empty row between nothing and a non-empty row: the second row's range
\* starts at 0; and the running offset is the second row's length.
C28_Witness ==
    /\ fn = "a5_compact"
    /\ pc = "done"
    /\ Len(result) = 2
    /\ result[1] = list_entry_t(0, 0)
    /\ result[2].length > 0
    /\ result[2].offset = 0
    /\ offset = result[2].length

\* Two non-empty rows lie back to back.
C28_WitnessBackToBack ==
    /\ fn = "a5_cell_to_boundary"
    /\ pc = "done"
    /\ Len(result) = 2
    /\ result[1].length > 0
    /\ result[2] = list_entry_t(result[1].length, result[2].length)
    /\ result[2].length > 0
    /\ offset = result[1].length + result[2].length

-----------------------------------------------------------------------------
(* A failing row *)

\* The elements of the finished rows, in row order.
CompletedElements == ConcatAll([i \in 1..Len(result) |-> ResultList(i)])

\* C29: a failing row contributes nothing.  In the list-returning wrappers a
\* row that raises, on the resolution check or on the core's error, leaves the
\* result list and the running offset as the rows before it left them: when
\* the call has failed, the failing row has no entry, the list child holds
\* exactly the elements of the finished rows, and offset is their number.
C29_FailingRowContributesNothing ==
    (ReturnsListPerRow /\ pc = "failed") =>
        /\ raised # NoError
        /\ Len(result) = row - 1
        /\ Len(child) = LengthsBefore(row)
        /\ child = CompletedElements
        /\ offset = LengthsBefore(row)

\* a5_cell_to_children has raised on the resolution check of its second row,
\* with the first row's five children in the list.
C29_Witness ==
    /\ fn = "a5_cell_to_children"
    /\ ColumnCount = 2
    /\ pc = "failed"
    /\ row = 2
    /\ args[1] = <<<<0>>, 1>>
    /\ args[2][2] = 31
    /\ Len(child) = 5
    /\ offset = 5
    /\ raised = "a5_cell_to_children: Resolution must be between 0 and 30"

\* a5_uncompact has raised on the core's error for its second row.
C29_WitnessCoreError ==
    /\ fn = "a5_uncompact"
    /\ pc = "failed"
    /\ row = 2
    /\ Len(child) > 0
    /\ offset = Len(child)
    /\ RowPassesValidation(args[2])

-----------------------------------------------------------------------------
(* Reading and releasing what the core returned *)

\* C30: no buffer the core returned is read after it is released.  Every read
\* of an array buffer, of its error message on the error path and of its
\* elements on the success path, happens while the buffer is held, before
\* a5_free_cell_array / a5_free_lonlatdegrees_array; an error string is copied
\* before it is freed and not touched afterwards; and the message raised on the
\* core's error is the function's name, ": ", then the core's message.
C30_NoReadAfterRelease ==
    ((ChecksCoreError \/ ReturnsArray) /\ pc # "idle") =>
        /\ \A k \in 1..Len(events) :
              /\ events[k] = "read" => Held(k) = 1
              /\ events[k] = "release" => Held(k - 1) = 1
              /\ events[k] = "error read" =>
                    /\ Count(SubSeq(events, 1, k), "error freed") = 0
                    /\ k < Len(events)
                    /\ events[k + 1] = "error freed"
              /\ events[k] = "error freed" =>
                    /\ k = Len(events)
                    /\ events[k - 1] = "error read"
        /\ Count(events, "read") =
              Len(child) + (IF pc = "failed" /\ ReturnsArray /\ RowPassesValidation(args[row])
                            THEN 1 ELSE 0)
        /\ (pc = "failed" /\ RowPassesValidation(args[row])) =>
              /\ Len(calls) > 0
              /\ raised = fn \o ": " \o CoreError(calls[Len(calls)])

\* a5_uncompact has pushed its first row's cells and released their buffer, then
\* raised on the second row with the message copied before the release.
C30_Witness ==
    /\ fn = "a5_uncompact"
    /\ pc = "failed"
    /\ row = 2
    /\ Len(child) > 0
    /\ events = ArrayPushEvents(Len(child)) \o ArrayErrorEvents
    /\ raised = "a5_uncompact: invalid cell"

\* a5_cell_to_parent has raised with the core's message, copied from the error
\* string before it was freed.
C30_WitnessErrorString ==
    /\ fn = "a5_cell_to_parent"
    /\ pc = "failed"
    /\ events = ErrorStringEvents
    /\ raised = "a5_cell_to_parent: parent resolution exceeds cell resolution"

-----------------------------------------------------------------------------
(* Concurrent invocations *)

\* What the lambda of function f does with row a.
EffectAlone(f, columns, a, data, off, size) ==
    CASE f = "a5_cell_to_children" /\ columns = 2 ->
            A5CellToChildrenLambda2(a[1], a[2], off, size)
      [] f = "a5_cell_to_children" /\ columns = 1 ->
            A5CellToChildrenLambda1(a[1], off, size)
      [] f = "a5_compact" -> A5CompactLambda(data, a[1], off, size)
      [] f = "a5_uncompact" -> A5UncompactLambda(data, a[1], a[2], off, size)

\* An invocation run on its own, with nothing else going on, through its first
\* n rows or up to the row that raises.
RECURSIVE RunAlone(_, _, _, _)
RunAlone(f, a, data, n) ==
    IF n = 0
    THEN [pc |-> "running", result |-> <<>>, child |-> <<>>, offset |-> 0,
          result_size |-> 0, raised |-> NoError]
    ELSE LET s == RunAlone(f, a, data, n - 1)
             e == EffectAlone(f, Len(a[1]), a[n], data, s.offset, s.result_size)
         IN  IF s.pc # "running" THEN s
             ELSE IF e.throw # NoError
                  THEN [s EXCEPT !.pc = "failed", !.raised = e.throw]
             ELSE [pc |-> IF n = Len(a) THEN "done" ELSE "running",
                   result |-> Append(s.result, e.value),
                   child |-> s.child \o e.push,
                   offset |-> e.offset,
                   result_size |-> e.result_size,
                   raised |-> NoError]

\* The invocation whose state is l stands where it would stand run alone.
AsAlone(l) ==
    l.pc # "idle" =>
        LET n == IF l.pc = "failed" THEN l.row ELSE l.row - 1
            s == RunAlone(l.fn, l.args, l.cell_list_data, n)
        IN  /\ s.pc = l.pc
            /\ s.result = l.result
            /\ s.child = l.child
            /\ s.raised = l.raised
            /\ s.offset = l.offset
            /\ s.result_size = l.result_size

\* C26: under any interleaving of two invocations of the wrappers on their own
\* chunks and result vectors, each invocation stands after every step, and
\* ends, with the result, the list child, the offset and the error it has when
\* run alone; and each has released the buffers it obtained.
C26_ConcurrentAsAlone ==
    /\ AsAlone(Local)
    /\ AsAlone(other)
    /\ obtained = released
    /\ other.obtained = other.released

\* Both invocations are past their first row and neither has finished: one
\* a5_compact and one a5_cell_to_children, each with its own offset.
C26_Witness ==
    /\ pc = "running"
    /\ other.pc = "running"
    /\ fn = "a5_compact"
    /\ other.fn = "a5_cell_to_children"
    /\ row = 2
    /\ other.row = 2
    /\ offset = 1
    /\ other.offset = 5

\* Both invocations have finished, one with a list per row, the other raised.
C26_WitnessBothEnded ==
    /\ pc = "done"
    /\ other.pc = "failed"
    /\ Len(result) = 2
    /\ other.row = 2
    /\ other.raised # NoError
    /\ offset > 0
    /\ other.offset > 0

====
